---- MODULE Spec2Model ----
(***************************************************************************)
(* Placeholder / StringInterpolation of bpc_utils/misc.py.                 *)
(*                                                                         *)
(* A Python str is a sequence of one-character strings, so that            *)
(* concatenation, ordering, repr() and str() are computed on characters.   *)
(* Placeholder and StringInterpolation instances live in a heap (a         *)
(* sequence of objects); a reference is the index of the object.  Every    *)
(* method is an operator from a heap and its arguments to a record         *)
(* [heap, ret]: the heap after the call and the returned value (or the     *)
(* exception raised).                                                      *)
(*                                                                         *)
(* MakeTextIO of bpc_utils/misc.py, detect_linesep and detect_indentation  *)
(* of bpc_utils/parsing.py: the calls run step by step on strings and on a *)
(* text stream, seekable or not, under the specification DetectSpec.       *)
(***************************************************************************)
EXTENDS Integers, Sequences, FiniteSets, TLC

VARIABLES heap, last

vars == <<heap, last>>

\* stream: the text stream the program holds; frame: the running call of
\* detect_linesep, detect_indentation or of a with MakeTextIO(...) block;
\* outcome: the call that ended last and what it returned or raised
VARIABLES stream, frame, outcome

ioVars == <<stream, frame, outcome>>

\* job: the call of map_tasks and where it stands; task_lock: the module's task_lock
\* in each process (0 is the process that calls map_tasks); lock: the state of the
\* Lock of the pool; procs: what each process runs; taskqueue: the chunks no worker
\* has taken; results: (index, value) of the calls that returned, as they returned;
\* output: the lines printed
VARIABLES job, task_lock, lock, procs, taskqueue, results, output

mpVars == <<job, task_lock, lock, procs, taskqueue, results, output>>

\* tree: the directories of the file system; files: the argument of detect_files;
\* file_list, directory_queue, directory_visited: its locals; enqueued: every append
\* to directory_queue made so far; detected: what the call returned
VARIABLES tree, files, file_list, directory_queue, directory_visited, enqueued, detected

fsVars == <<tree, files, file_list, directory_queue, directory_visited, enqueued, detected>>

(***************************************************************************)
(* Bounds of the model.                                                    *)
(***************************************************************************)
MaxInterpolations == 1
MaxArgs == 2
MaxPlaceholders == 2

(***************************************************************************)
(* Python values.                                                          *)
(***************************************************************************)
Str(cs) == [type |-> "str", chars |-> cs]
PyInt(k) == [type |-> "int", n |-> k]
Bool(b) == [type |-> "bool", b |-> b]
Tuple(xs) == [type |-> "tuple", items |-> xs]
Ref(i) == [type |-> "ref", id |-> i]
None == [type |-> "None"]
NotImplemented == [type |-> "NotImplemented"]
Raise(e, head, arg, tail) ==
    [type |-> "exc", exc |-> e, head |-> head, arg |-> arg, tail |-> tail]
Return(h, v) == [heap |-> h, ret |-> v]

IsExc(v) == v.type = "exc"

\* r is the outcome of a call: an exception propagates, otherwise K goes on from r
Bind(r, K(_)) == IF IsExc(r.ret) THEN r ELSE K(r)
\* r is the outcome of a binary method: alt is tried when r is NotImplemented
OrElse(r, alt) == IF r.ret # NotImplemented THEN r ELSE alt
IsStr(v) == v.type = "str"
IsPlaceholder(h, v) == v.type = "ref" /\ h[v.id].type = "Placeholder"
IsStringInterpolation(h, v) == v.type = "ref" /\ h[v.id].type = "StringInterpolation"

\* str + str
StrConcat(a, b) == Str(a.chars \o b.chars)

\* t[:-1] and t[1:] of a tuple
AllButLast(t) == SubSeq(t, 1, Len(t) - 1)
AllButFirst(t) == SubSeq(t, 2, Len(t))

(***************************************************************************)
(* class Placeholder                                                       *)
(***************************************************************************)
\* Placeholder(name): the new object is allocated, then __init__ runs on it
Placeholder__init__(h, name) ==
    LET h1 == Append(h, [type |-> "Placeholder", name |-> None])
        self == Len(h) + 1
    IN  IF ~IsStr(name)
        THEN Return(h1, Raise("TypeError", "placeholder name must be str", None, ""))
        ELSE Return([h1 EXCEPT ![self].name = name], Ref(self))

\* type(self) is type(other) and self.name == other.name
Placeholder__eq__(h, self, other) ==
    IsPlaceholder(h, other) /\ h[self.id].name = h[other.id].name

(***************************************************************************)
(* class StringInterpolation                                               *)
(***************************************************************************)
\* StringInterpolation() with no arguments
EmptyStringInterpolation ==
    [type |-> "StringInterpolation", literals |-> <<Str(<<>>)>>, placeholders |-> <<>>]

SomeNonStr(xs) == CHOOSE i \in DOMAIN xs : ~IsStr(xs[i]) /\ \A j \in 1..(i - 1) : IsStr(xs[j])
SomeNonPlaceholder(h, xs) ==
    CHOOSE i \in DOMAIN xs : ~IsPlaceholder(h, xs[i]) /\ \A j \in 1..(i - 1) : IsPlaceholder(h, xs[j])

\* from_components with the check of the literals' types forgotten
from_componentsNoLiteralCheck(h, literals, placeholders) ==
    LET h1 == Append(h, EmptyStringInterpolation)
        obj == Len(h) + 1
    IN  IF IsStr(literals)
        THEN Return(h1, Raise("TypeError", "literals must be a non-string iterable", None, ""))
        ELSE LET h2 == [h1 EXCEPT ![obj].literals = literals.items,
                                  ![obj].placeholders = placeholders.items]
             IN  IF Len(h2[obj].literals) - Len(h2[obj].placeholders) # 1
                 THEN Return(h2, Raise("ValueError",
                        "the number of literals must be exactly one more than the number of placeholders",
                        None, ""))
                 ELSE IF \E i \in DOMAIN h2[obj].placeholders : ~IsPlaceholder(h2, h2[obj].placeholders[i])
                 THEN Return(h2, Raise("TypeError", "placeholders contain non-Placeholder value: ",
                        h2[obj].placeholders[SomeNonPlaceholder(h2, h2[obj].placeholders)], ""))
                 ELSE Return(h2, Ref(obj))

\* from_components with the check of the two lengths forgotten
from_componentsNoLengthCheck(h, literals, placeholders) ==
    LET h1 == Append(h, EmptyStringInterpolation)
        obj == Len(h) + 1
    IN  IF IsStr(literals)
        THEN Return(h1, Raise("TypeError", "literals must be a non-string iterable", None, ""))
        ELSE LET h2 == [h1 EXCEPT ![obj].literals = literals.items,
                                  ![obj].placeholders = placeholders.items]
             IN  IF \E i \in DOMAIN h2[obj].literals : ~IsStr(h2[obj].literals[i])
                 THEN Return(h2, Raise("TypeError", "literals contain non-string value: ",
                        h2[obj].literals[SomeNonStr(h2[obj].literals)], ""))
                 ELSE IF \E i \in DOMAIN h2[obj].placeholders : ~IsPlaceholder(h2, h2[obj].placeholders[i])
                 THEN Return(h2, Raise("TypeError", "placeholders contain non-Placeholder value: ",
                        h2[obj].placeholders[SomeNonPlaceholder(h2, h2[obj].placeholders)], ""))
                 ELSE Return(h2, Ref(obj))

from_components(h, literals, placeholders) ==
    LET h1 == Append(h, EmptyStringInterpolation)
        obj == Len(h) + 1
    IN  IF IsStr(literals)
        THEN Return(h1, Raise("TypeError", "literals must be a non-string iterable", None, ""))
        ELSE LET h2 == [h1 EXCEPT ![obj].literals = literals.items,
                                  ![obj].placeholders = placeholders.items]
             IN  IF Len(h2[obj].literals) - Len(h2[obj].placeholders) # 1
                 THEN Return(h2, Raise("ValueError",
                        "the number of literals must be exactly one more than the number of placeholders",
                        None, ""))
                 ELSE IF \E i \in DOMAIN h2[obj].literals : ~IsStr(h2[obj].literals[i])
                 THEN Return(h2, Raise("TypeError", "literals contain non-string value: ",
                        h2[obj].literals[SomeNonStr(h2[obj].literals)], ""))
                 ELSE IF \E i \in DOMAIN h2[obj].placeholders : ~IsPlaceholder(h2, h2[obj].placeholders[i])
                 THEN Return(h2, Raise("TypeError", "placeholders contain non-Placeholder value: ",
                        h2[obj].placeholders[SomeNonPlaceholder(h2, h2[obj].placeholders)], ""))
                 ELSE Return(h2, Ref(obj))

\* __add__ of Placeholder without the case of a Placeholder operand
Placeholder__add__NoPlaceholder(h, self, other) ==
    IF IsStr(other)
    THEN from_components(h, Tuple(<<Str(<<>>), other>>), Tuple(<<self>>))
    ELSE IF IsStringInterpolation(h, other)
    THEN from_components(h, Tuple(<<Str(<<>>)>> \o h[other.id].literals),
                         Tuple(<<self>> \o h[other.id].placeholders))
    ELSE Return(h, NotImplemented)

Placeholder__add__(h, self, other) ==
    IF IsStr(other)
    THEN from_components(h, Tuple(<<Str(<<>>), other>>), Tuple(<<self>>))
    ELSE IF IsPlaceholder(h, other)
    THEN from_components(h, Tuple(<<Str(<<>>), Str(<<>>), Str(<<>>)>>), Tuple(<<self, other>>))
    ELSE IF IsStringInterpolation(h, other)
    THEN from_components(h, Tuple(<<Str(<<>>)>> \o h[other.id].literals),
                            Tuple(<<self>> \o h[other.id].placeholders))
    ELSE Return(h, NotImplemented)

Placeholder__radd__(h, self, other) ==
    IF IsStr(other)
    THEN from_components(h, Tuple(<<other, Str(<<>>)>>), Tuple(<<self>>))
    ELSE Return(h, NotImplemented)

\* __add__ whose str case extends the last literal of self in place and returns self
StringInterpolation__add__InPlace(h, self, other) ==
    LET lits == h[self.id].literals
        phs == h[self.id].placeholders
    IN  IF IsStr(other)
        THEN Return([h EXCEPT ![self.id].literals[Len(lits)] = StrConcat(lits[Len(lits)], other)], self)
        ELSE IF IsPlaceholder(h, other)
        THEN from_components(h, Tuple(lits \o <<Str(<<>>)>>), Tuple(phs \o <<other>>))
        ELSE IF IsStringInterpolation(h, other)
        THEN from_components(h,
                Tuple(AllButLast(lits)
                      \o <<StrConcat(lits[Len(lits)], h[other.id].literals[1])>>
                      \o AllButFirst(h[other.id].literals)),
                Tuple(phs \o h[other.id].placeholders))
        ELSE Return(h, NotImplemented)

\* __add__ whose str case puts other in the place of the last literal instead of
\* appending it to the last literal
StringInterpolation__add__Replace(h, self, other) ==
    LET lits == h[self.id].literals
        phs == h[self.id].placeholders
    IN  IF IsStr(other)
        THEN from_components(h, Tuple(AllButLast(lits) \o <<other>>), Tuple(phs))
        ELSE IF IsPlaceholder(h, other)
        THEN from_components(h, Tuple(lits \o <<Str(<<>>)>>), Tuple(phs \o <<other>>))
        ELSE IF IsStringInterpolation(h, other)
        THEN from_components(h,
                Tuple(AllButLast(lits)
                      \o <<StrConcat(lits[Len(lits)], h[other.id].literals[1])>>
                      \o AllButFirst(h[other.id].literals)),
                Tuple(phs \o h[other.id].placeholders))
        ELSE Return(h, NotImplemented)

StringInterpolation__add__(h, self, other) ==
    LET lits == h[self.id].literals
        phs == h[self.id].placeholders
    IN  IF IsStr(other)
        THEN from_components(h, Tuple(AllButLast(lits) \o <<StrConcat(lits[Len(lits)], other)>>),
                                Tuple(phs))
        ELSE IF IsPlaceholder(h, other)
        THEN from_components(h, Tuple(lits \o <<Str(<<>>)>>), Tuple(phs \o <<other>>))
        ELSE IF IsStringInterpolation(h, other)
        THEN from_components(h,
                Tuple(AllButLast(lits)
                      \o <<StrConcat(lits[Len(lits)], h[other.id].literals[1])>>
                      \o AllButFirst(h[other.id].literals)),
                Tuple(phs \o h[other.id].placeholders))
        ELSE Return(h, NotImplemented)

StringInterpolation__radd__(h, self, other) ==
    LET lits == h[self.id].literals
    IN  IF IsStr(other)
        THEN from_components(h, Tuple(<<StrConcat(other, lits[1])>> \o AllButFirst(lits)),
                                Tuple(h[self.id].placeholders))
        ELSE Return(h, NotImplemented)

(***************************************************************************)
(* The interpreter's a + b: type(a).__add__(a, b) first, then, when that   *)
(* is missing or gives NotImplemented and the types differ,                *)
(* type(b).__radd__(b, a); TypeError when neither handles the pair.        *)
(***************************************************************************)
TypeOf(h, v) == IF v.type = "ref" THEN h[v.id].type ELSE v.type

Dunder_add(h, a, b) ==
    IF IsPlaceholder(h, a) THEN Placeholder__add__(h, a, b)
    ELSE IF IsStringInterpolation(h, a) THEN StringInterpolation__add__(h, a, b)
    ELSE IF IsStr(a) /\ IsStr(b) THEN Return(h, StrConcat(a, b))
    ELSE IF a.type = "int" /\ b.type = "int" THEN Return(h, PyInt(a.n + b.n))
    ELSE Return(h, NotImplemented)

Dunder_radd(h, b, a) ==
    IF IsPlaceholder(h, b) THEN Placeholder__radd__(h, b, a)
    ELSE IF IsStringInterpolation(h, b) THEN StringInterpolation__radd__(h, b, a)
    ELSE Return(h, NotImplemented)

UnsupportedOperand(h) ==
    Return(h, Raise("TypeError", "unsupported operand type(s) for +", None, ""))

operator_add(h, a, b) ==
    OrElse(Dunder_add(h, a, b),
           IF TypeOf(h, a) = TypeOf(h, b) THEN UnsupportedOperand(h)
           ELSE OrElse(Dunder_radd(h, b, a), UnsupportedOperand(h)))

(***************************************************************************)
(* Builtins on str and int: ordering of str by code point, repr(str),      *)
(* str(int), sorted(set(...)) and ', '.join(...).                          *)
(***************************************************************************)
Ord(c) ==
    CASE c = "%" -> 37 [] c = "'" -> 39 [] c = "(" -> 40 [] c = ")" -> 41
      [] c = "1" -> 49 [] c = "6" -> 54 [] c = "A" -> 65 [] c = "\\" -> 92
      [] c = "a" -> 97 [] c = "q" -> 113 [] c = "s" -> 115 [] c = "y" -> 121
      [] c = "{" -> 123 [] c = "}" -> 125 [] c = "\"" -> 34

RECURSIVE CharsLess(_, _)
CharsLess(a, b) ==
    IF b = <<>> THEN FALSE
    ELSE IF a = <<>> THEN TRUE
    ELSE IF Ord(Head(a)) # Ord(Head(b)) THEN Ord(Head(a)) < Ord(Head(b))
    ELSE CharsLess(Tail(a), Tail(b))

\* sorted(S) for a set S of str
RECURSIVE sorted(_)
sorted(S) ==
    IF S = {} THEN <<>>
    ELSE LET m == CHOOSE x \in S : \A y \in S : x = y \/ CharsLess(x.chars, y.chars)
         IN  <<m>> \o sorted(S \ {m})

RECURSIVE EscapeChars(_, _)
EscapeChars(cs, quote) ==
    IF cs = <<>> THEN <<>>
    ELSE (IF Head(cs) = "\\" \/ Head(cs) = quote THEN <<"\\", Head(cs)>> ELSE <<Head(cs)>>)
         \o EscapeChars(Tail(cs), quote)

\* repr(s) of a str of printable ASCII characters
repr_str(s) ==
    LET has(c) == \E i \in DOMAIN s.chars : s.chars[i] = c
        quote == IF has("'") /\ ~has("\"") THEN "\"" ELSE "'"
    IN  Str(<<quote>> \o EscapeChars(s.chars, quote) \o <<quote>>)

\* sep.join(xs) for a sequence xs of str
RECURSIVE join(_, _)
join(sep, xs) ==
    IF xs = <<>> THEN Str(<<>>)
    ELSE IF Len(xs) = 1 THEN xs[1]
    ELSE StrConcat(StrConcat(xs[1], sep), join(sep, Tail(xs)))

DigitChar(d) == <<"0", "1", "2", "3", "4", "5", "6", "7", "8", "9">>[d + 1]

RECURSIVE Digits(_)
Digits(k) == IF k < 10 THEN <<DigitChar(k)>> ELSE Digits(k \div 10) \o <<DigitChar(k % 10)>>

int__str__(v) == Str(IF v.n < 0 THEN <<"-">> \o Digits(-v.n) ELSE Digits(v.n))

(***************************************************************************)
(* StringInterpolation.__init__, iter_components, __str__, __eq__,         *)
(* __hash__, __bool__, __mod__, result                                     *)
(***************************************************************************)
\* functools.reduce(operator.add, args, acc)
RECURSIVE reduce_operator_add(_, _, _)
reduce_operator_add(h, acc, args) ==
    IF args = <<>> THEN Return(h, acc)
    ELSE Bind(operator_add(h, acc, Head(args)),
              LAMBDA r : reduce_operator_add(r.heap, r.ret, Tail(args)))

\* StringInterpolation(*args): the new object self is allocated, then __init__ runs on it
StringInterpolation__init__(h, args) ==
    IF args = <<>>
    THEN Return(Append(h, EmptyStringInterpolation), Ref(Len(h) + 1))
    ELSE Bind(reduce_operator_add(
                  Append(Append(h, [type |-> "StringInterpolation", literals |-> <<>>,
                                    placeholders |-> <<>>]),
                         EmptyStringInterpolation),
                  Ref(Len(h) + 2), args),
              LAMBDA r : Return([r.heap EXCEPT ![Len(h) + 1].literals = r.heap[r.ret.id].literals,
                                               ![Len(h) + 1].placeholders = r.heap[r.ret.id].placeholders],
                                Ref(Len(h) + 1)))

\* iter_components with the final "yield self.literals[-1]" forgotten
iter_componentsNoLast(h, self) ==
    LET lits == h[self.id].literals
        phs == h[self.id].placeholders
        k == IF Len(lits) < Len(phs) THEN Len(lits) ELSE Len(phs)
    IN  [i \in 1..(2 * k) |-> IF i % 2 = 1 THEN lits[(i + 1) \div 2] ELSE phs[i \div 2]]

\* list(self.iter_components())
iter_components(h, self) ==
    LET lits == h[self.id].literals
        phs == h[self.id].placeholders
        k == IF Len(lits) < Len(phs) THEN Len(lits) ELSE Len(phs)
    IN  [i \in 1..(2 * k + 1) |->
            IF i = 2 * k + 1 THEN lits[Len(lits)]
            ELSE IF i % 2 = 1 THEN lits[(i + 1) \div 2] ELSE phs[i \div 2]]

\* the names in the order of their first occurrence
RECURSIVE FirstOccurrences(_, _)
FirstOccurrences(xs, seen) ==
    IF xs = <<>> THEN <<>>
    ELSE IF Head(xs) \in seen THEN FirstOccurrences(Tail(xs), seen)
    ELSE <<Head(xs)>> \o FirstOccurrences(Tail(xs), seen \cup {Head(xs)})

\* __str__ with sorted() forgotten: the names are listed as they occur
StringInterpolation__str__Unsorted(h, self) ==
    IF h[self.id].placeholders # <<>>
    THEN Return(h, Raise("ValueError",
            "cannot convert this StringInterpolation object to str (retrieve interpolation result) because it contains the following unsubstituted placeholders: ",
            join(Str(<<",", " ">>),
                 LET names == FirstOccurrences([i \in DOMAIN h[self.id].placeholders |->
                                                  h[h[self.id].placeholders[i].id].name], {})
                 IN  [i \in DOMAIN names |-> repr_str(names[i])]),
            "; consider using repr() if you want a string representation of this object"))
    ELSE Return(h, h[self.id].literals[1])

StringInterpolation__str__(h, self) ==
    IF h[self.id].placeholders # <<>>
    THEN Return(h, Raise("ValueError",
            "cannot convert this StringInterpolation object to str (retrieve interpolation result) because it contains the following unsubstituted placeholders: ",
            join(Str(<<",", " ">>),
                 LET names == sorted({h[h[self.id].placeholders[i].id].name :
                                        i \in DOMAIN h[self.id].placeholders})
                 IN  [i \in DOMAIN names |-> repr_str(names[i])]),
            "; consider using repr() if you want a string representation of this object"))
    ELSE Return(h, h[self.id].literals[1])

Placeholder__str__(h, self) ==
    Return(h, Raise("TypeError",
        "Placeholder objects cannot be converted to str, consider using repr() if you want a string representation",
        None, ""))

\* the builtin str(v)
builtin_str(h, v) ==
    IF IsStr(v) THEN Return(h, v)
    ELSE IF v.type = "int" THEN Return(h, int__str__(v))
    ELSE IF IsPlaceholder(h, v) THEN Placeholder__str__(h, v)
    ELSE StringInterpolation__str__(h, v)

StringInterpolation_result(h, self) == builtin_str(h, self)

\* == of two tuples of placeholders: element by element, identity first, then __eq__
PlaceholderTupleEq(h, xs, ys) ==
    /\ Len(xs) = Len(ys)
    /\ \A i \in DOMAIN xs : xs[i] = ys[i] \/ Placeholder__eq__(h, xs[i], ys[i])

\* __eq__ whose Placeholder case forgets to compare the literals
StringInterpolation__eq__NoLiteralCheck(h, self, other) ==
    IF /\ IsStringInterpolation(h, other)
       /\ h[self.id].literals = h[other.id].literals
       /\ PlaceholderTupleEq(h, h[self.id].placeholders, h[other.id].placeholders)
    THEN TRUE
    ELSE IF IsStr(other) /\ h[self.id].literals = <<other>>
    THEN TRUE
    ELSE IF IsPlaceholder(h, other) /\ PlaceholderTupleEq(h, h[self.id].placeholders, <<other>>)
    THEN TRUE
    ELSE FALSE

StringInterpolation__eq__(h, self, other) ==
    IF /\ IsStringInterpolation(h, other)
       /\ h[self.id].literals = h[other.id].literals
       /\ PlaceholderTupleEq(h, h[self.id].placeholders, h[other.id].placeholders)
    THEN TRUE
    ELSE IF IsStr(other) /\ h[self.id].literals = <<other>>
    THEN TRUE
    ELSE IF /\ IsPlaceholder(h, other)
            /\ PlaceholderTupleEq(h, h[self.id].placeholders, <<other>>)
            /\ h[self.id].literals = <<Str(<<>>), Str(<<>>)>>
    THEN TRUE
    ELSE FALSE

(***************************************************************************)
(* hash(): the hash of a str is a function of its characters and the hash  *)
(* of a tuple a function of the hashes of its items, so a hash is modelled *)
(* by the term it is computed from; equal terms are equal hashes.          *)
(***************************************************************************)
str__hash__(s) == [of |-> "str", chars |-> s.chars]
tuple__hash__(hs) == [of |-> "tuple", items |-> hs]

Placeholder__hash__(h, self) == tuple__hash__(<<str__hash__(h[self.id].name)>>)

\* __hash__ without the case of a bare placeholder
StringInterpolation__hash__NoPlaceholderCase(h, self) ==
    LET lits == h[self.id].literals
        phs == h[self.id].placeholders
    IN  IF Len(lits) = 1 THEN str__hash__(lits[1])
        ELSE tuple__hash__(<<tuple__hash__([i \in DOMAIN lits |-> str__hash__(lits[i])]),
                             tuple__hash__([i \in DOMAIN phs |-> Placeholder__hash__(h, phs[i])])>>)

StringInterpolation__hash__(h, self) ==
    LET lits == h[self.id].literals
        phs == h[self.id].placeholders
    IN  IF Len(lits) = 1 THEN str__hash__(lits[1])
        ELSE IF lits = <<Str(<<>>), Str(<<>>)>> THEN Placeholder__hash__(h, phs[1])
        ELSE tuple__hash__(<<tuple__hash__([i \in DOMAIN lits |-> str__hash__(lits[i])]),
                             tuple__hash__([i \in DOMAIN phs |-> Placeholder__hash__(h, phs[i])])>>)

StringInterpolation__bool__(h, self) ==
    Len(h[self.id].literals) > 1 \/ h[self.id].literals[1] # Str(<<>>)

\* the loop of __mod__ over the components cs, result being the accumulator
RECURSIVE ModLoop(_, _, _, _)
ModLoop(h, result, cs, substitutions) ==
    IF cs = <<>> THEN Return(h, result)
    ELSE Bind(IF IsPlaceholder(h, Head(cs)) /\ h[Head(cs).id].name.chars \in DOMAIN substitutions
              THEN Bind(builtin_str(h, substitutions[h[Head(cs).id].name.chars]),
                        LAMBDA v : operator_add(v.heap, result, v.ret))
              ELSE operator_add(h, result, Head(cs)),
              LAMBDA r : ModLoop(r.heap, r.ret, Tail(cs), substitutions))

\* __mod__ with the conversion to str forgotten: result += substitutions[name]
RECURSIVE ModLoopNoStr(_, _, _, _)
ModLoopNoStr(h, result, cs, substitutions) ==
    IF cs = <<>> THEN Return(h, result)
    ELSE Bind(IF IsPlaceholder(h, Head(cs)) /\ h[Head(cs).id].name.chars \in DOMAIN substitutions
              THEN operator_add(h, result, substitutions[h[Head(cs).id].name.chars])
              ELSE operator_add(h, result, Head(cs)),
              LAMBDA r : ModLoopNoStr(r.heap, r.ret, Tail(cs), substitutions))

StringInterpolation__mod__NoStr(h, self, substitutions) ==
    Bind(StringInterpolation__init__(h, <<>>),
         LAMBDA r0 : ModLoopNoStr(r0.heap, r0.ret, iter_components(h, self), substitutions))

\* __mod__ that consumes a key once it is used: only the first occurrence of a name
\* is replaced
RECURSIVE ModLoopFirstOnly(_, _, _, _)
ModLoopFirstOnly(h, result, cs, substitutions) ==
    IF cs = <<>> THEN Return(h, result)
    ELSE IF IsPlaceholder(h, Head(cs)) /\ h[Head(cs).id].name.chars \in DOMAIN substitutions
    THEN Bind(Bind(builtin_str(h, substitutions[h[Head(cs).id].name.chars]),
                   LAMBDA v : operator_add(v.heap, result, v.ret)),
              LAMBDA r : ModLoopFirstOnly(r.heap, r.ret, Tail(cs),
                            [x \in DOMAIN substitutions \ {h[Head(cs).id].name.chars}
                                |-> substitutions[x]]))
    ELSE Bind(operator_add(h, result, Head(cs)),
              LAMBDA r : ModLoopFirstOnly(r.heap, r.ret, Tail(cs), substitutions))

StringInterpolation__mod__FirstOnly(h, self, substitutions) ==
    Bind(StringInterpolation__init__(h, <<>>),
         LAMBDA r0 : ModLoopFirstOnly(r0.heap, r0.ret, iter_components(h, self), substitutions))

\* __mod__ in the manner of a printf-style template: a literal that reads %(key)s with
\* key in the mapping is taken for a substitution point
PatternKey(h, c) ==
    IF IsPlaceholder(h, c) THEN h[c.id].name.chars
    ELSE IF Len(c.chars) > 4 /\ SubSeq(c.chars, 1, 2) = <<"%", "(">>
                            /\ SubSeq(c.chars, Len(c.chars) - 1, Len(c.chars)) = <<")", "s">>
    THEN SubSeq(c.chars, 3, Len(c.chars) - 2)
    ELSE <<"%">>

RECURSIVE ModLoopReinterpret(_, _, _, _)
ModLoopReinterpret(h, result, cs, substitutions) ==
    IF cs = <<>> THEN Return(h, result)
    ELSE Bind(IF PatternKey(h, Head(cs)) \in DOMAIN substitutions
              THEN Bind(builtin_str(h, substitutions[PatternKey(h, Head(cs))]),
                        LAMBDA v : operator_add(v.heap, result, v.ret))
              ELSE operator_add(h, result, Head(cs)),
              LAMBDA r : ModLoopReinterpret(r.heap, r.ret, Tail(cs), substitutions))

StringInterpolation__mod__Reinterpret(h, self, substitutions) ==
    Bind(StringInterpolation__init__(h, <<>>),
         LAMBDA r0 : ModLoopReinterpret(r0.heap, r0.ret, iter_components(h, self), substitutions))

StringInterpolation__mod__(h, self, substitutions) ==
    Bind(StringInterpolation__init__(h, <<>>),
         LAMBDA r0 : ModLoop(r0.heap, r0.ret, iter_components(h, self), substitutions))

(***************************************************************************)
(* The interpreter's a == b and the statement boundary.                    *)
(***************************************************************************)
\* a == b: type(a).__eq__(a, b); str and int give NotImplemented for a foreign
\* type and the reflected type(b).__eq__(b, a) is then tried
operator_eq(h, a, b) ==
    IF IsStringInterpolation(h, a) THEN StringInterpolation__eq__(h, a, b)
    ELSE IF IsPlaceholder(h, a) THEN Placeholder__eq__(h, a, b)
    ELSE IF a.type = b.type THEN a = b
    ELSE IF IsStringInterpolation(h, b) THEN StringInterpolation__eq__(h, b, a)
    ELSE IF IsPlaceholder(h, b) THEN Placeholder__eq__(h, b, a)
    ELSE FALSE

\* hash(v)
builtin_hash(h, v) ==
    IF IsStr(v) THEN str__hash__(v)
    ELSE IF IsPlaceholder(h, v) THEN Placeholder__hash__(h, v)
    ELSE StringInterpolation__hash__(h, v)

\* The heap after the statement that made the call r on the heap h0: the temporaries
\* of the call are unreachable and reclaimed, and so is the returned object unless the
\* program keeps a reference to it; the objects of h0 stay.
Statement(h0, r, keep) ==
    IF keep /\ r.ret.type = "ref" /\ r.ret.id > Len(h0)
    THEN Append(SubSeq(r.heap, 1, Len(h0)), r.heap[r.ret.id])
    ELSE SubSeq(r.heap, 1, Len(h0))

(***************************************************************************)
(* Inputs                                                                  *)
(***************************************************************************)
INJ == <<"%", "(", "y", ")", "s">>
NamePool == {Str(<<"q">>), Str(<<"y">>)}
NonStr == PyInt(66)

Refs(h) == {Ref(i) : i \in DOMAIN h}
StringInterpolations(h) == {r \in Refs(h) : IsStringInterpolation(h, r)}
Placeholders(h) == {r \in Refs(h) : IsPlaceholder(h, r)}

SeqsUpTo(S, n) == UNION {[1..k -> S] : k \in 0..n}

\* the mappings given to %: from some of the names to str or int values, or from one
\* name to an object
Substitutions(h) ==
    UNION {[K -> {Str(INJ), NonStr}] : K \in SUBSET {n.chars : n \in NamePool}}
    \cup UNION {[{n.chars} -> Refs(h)] : n \in NamePool}

NoCall ==
    [op |-> "none", a |-> None, b |-> None, m |-> <<>>, ret |-> None, pre |-> <<>>, post |-> <<>>]
Call(op, a, b, m, r) ==
    [op |-> op, a |-> a, b |-> b, m |-> m, ret |-> r.ret, pre |-> heap, post |-> r.heap]

NumPlaceholders(h) == Cardinality(Placeholders(h))

(***************************************************************************)
(* Text streams.  A stream is its content (characters), the read position, *)
(* whether it is closed and seekable, and the seekable()/tell()/seek()     *)
(* calls made on it.  The streams do not translate newlines                *)
(* (io.StringIO(text, newline=''), socket.makefile(newline='')): a line    *)
(* ends after the first "\n", "\r\n" or "\r".                              *)
(***************************************************************************)
CR == "\r"
LF == "\n"
TAB == "\t"
SP == " "

TextIO(text, canSeek) ==
    [type |-> "TextIO", content |-> text, pos |-> 0, closed |-> FALSE,
     seekable |-> canSeek, calls |-> <<>>]

\* the position after the line that starts at position p
LineEnd(cs, p) ==
    IF \E i \in (p + 1)..Len(cs) : cs[i] \in {CR, LF}
    THEN LET i == CHOOSE i \in (p + 1)..Len(cs) :
                      cs[i] \in {CR, LF} /\ \A j \in (p + 1)..(i - 1) : cs[j] \notin {CR, LF}
         IN  IF cs[i] = CR /\ i < Len(cs) /\ cs[i + 1] = LF THEN i + 1 ELSE i
    ELSE Len(cs)

readline(f) ==
    [file |-> [f EXCEPT !.pos = LineEnd(f.content, f.pos)],
     line |-> SubSeq(f.content, f.pos + 1, LineEnd(f.content, f.pos))]

read(f) ==
    [file |-> [f EXCEPT !.pos = Len(f.content)],
     data |-> SubSeq(f.content, f.pos + 1, Len(f.content))]

seekable(f) == [file |-> [f EXCEPT !.calls = Append(@, "seekable")], ret |-> f.seekable]
tell(f) == [file |-> [f EXCEPT !.calls = Append(@, "tell")], ret |-> f.pos]
seek(f, offset) == [f EXCEPT !.pos = offset, !.calls = Append(@, "seek")]
close(f) == [f EXCEPT !.closed = TRUE]

(***************************************************************************)
(* MakeTextIO.  obj is a str or TheStream, the stream of the program; the  *)
(* methods take the stream s and the instance self and give both back,     *)
(* __enter__ also the file it returns: "sio" (self.sio) or "obj" (s).      *)
(***************************************************************************)
TheStream == [type |-> "stream"]

MakeTextIO__init__(obj) == [obj |-> obj, sio |-> None, pos |-> None]

\* __enter__ that records the offset but does not go to the start
MakeTextIO__enter__NoRewind(s, self) ==
    IF IsStr(self.obj)
    THEN [stream |-> s, self |-> [self EXCEPT !.sio = TextIO(self.obj.chars, TRUE)], file |-> "sio"]
    ELSE IF seekable(s).ret
    THEN [stream |-> tell(seekable(s).file).file,
          self |-> [self EXCEPT !.pos = PyInt(tell(seekable(s).file).ret)],
          file |-> "obj"]
    ELSE [stream |-> seekable(s).file, self |-> self, file |-> "obj"]

\* __enter__ that does not ask whether the stream is seekable
MakeTextIO__enter__AlwaysSeek(s, self) ==
    IF IsStr(self.obj)
    THEN [stream |-> s, self |-> [self EXCEPT !.sio = TextIO(self.obj.chars, TRUE)], file |-> "sio"]
    ELSE [stream |-> seek(tell(s).file, 0),
          self |-> [self EXCEPT !.pos = PyInt(tell(s).ret)],
          file |-> "obj"]

MakeTextIO__enter__(s, self) ==
    IF IsStr(self.obj)
    THEN [stream |-> s, self |-> [self EXCEPT !.sio = TextIO(self.obj.chars, TRUE)], file |-> "sio"]
    ELSE IF seekable(s).ret
    THEN [stream |-> seek(tell(seekable(s).file).file, 0),
          self |-> [self EXCEPT !.pos = PyInt(tell(seekable(s).file).ret)],
          file |-> "obj"]
    ELSE [stream |-> seekable(s).file, self |-> self, file |-> "obj"]

\* __exit__ that does not restore the offset
MakeTextIO__exit__NoSeek(s, self) ==
    IF IsStr(self.obj)
    THEN [stream |-> s, self |-> [self EXCEPT !.sio = close(@)]]
    ELSE [stream |-> seekable(s).file, self |-> self]

\* __exit__ that leaves the StringIO open
MakeTextIO__exit__NoClose(s, self) ==
    IF IsStr(self.obj)
    THEN [stream |-> s, self |-> self]
    ELSE IF seekable(s).ret
    THEN [stream |-> seek(seekable(s).file, self.pos.n), self |-> self]
    ELSE [stream |-> seekable(s).file, self |-> self]

MakeTextIO__exit__(s, self) ==
    IF IsStr(self.obj)
    THEN [stream |-> s, self |-> [self EXCEPT !.sio = close(@)]]
    ELSE IF seekable(s).ret
    THEN [stream |-> seek(seekable(s).file, self.pos.n), self |-> self]
    ELSE [stream |-> seekable(s).file, self |-> self]

(***************************************************************************)
(* detect_linesep: the vote of a line and the resolution.                  *)
(***************************************************************************)
endswith(line, suffix) ==
    /\ Len(line) >= Len(suffix)
    /\ SubSeq(line, Len(line) - Len(suffix) + 1, Len(line)) = suffix

LinesepPool == [CR |-> 0, CRLF |-> 0, LF |-> 0]

\* the vote with the test for "\n" made before the test for "\r\n"
LinesepVoteLFFirst(pool, line) ==
    IF endswith(line, <<CR>>) THEN [pool EXCEPT !.CR = @ + 1]
    ELSE IF endswith(line, <<LF>>) THEN [pool EXCEPT !.LF = @ + 1]
    ELSE IF endswith(line, <<CR, LF>>) THEN [pool EXCEPT !.CRLF = @ + 1]
    ELSE pool

LinesepVote(pool, line) ==
    IF endswith(line, <<CR>>) THEN [pool EXCEPT !.CR = @ + 1]
    ELSE IF endswith(line, <<CR, LF>>) THEN [pool EXCEPT !.CRLF = @ + 1]
    ELSE IF endswith(line, <<LF>>) THEN [pool EXCEPT !.LF = @ + 1]
    ELSE pool

\* the tests of the if/elif chain with the test for "\n" made before the one for "\r\n"
LinesepTestsLFFirst(line) ==
    IF endswith(line, <<CR>>) THEN <<"CR">>
    ELSE IF endswith(line, <<LF>>) THEN <<"CR", "LF">>
    ELSE <<"CR", "LF", "CRLF">>

\* the tests of the if/elif chain that are made on a line, in the order in which they
\* are made: a test is made when every test before it has failed
LinesepTests(line) ==
    IF endswith(line, <<CR>>) THEN <<"CR">>
    ELSE IF endswith(line, <<CR, LF>>) THEN <<"CR", "CRLF">>
    ELSE <<"CR", "CRLF", "LF">>

\* a < b for tuples (count, priority, linesep) whose priorities differ
TupleLess(a, b) == a[1] < b[1] \/ (a[1] = b[1] /\ a[2] < b[2])

max(a, b, c) ==
    IF TupleLess(a, b)
    THEN IF TupleLess(b, c) THEN c ELSE b
    ELSE IF TupleLess(a, c) THEN c ELSE a

\* the resolution with the priorities of CR and CRLF exchanged
LinesepResultCRFirst(pool) ==
    Str(max(<<pool.LF, 3, <<LF>>>>, <<pool.CRLF, 1, <<CR, LF>>>>, <<pool.CR, 2, <<CR>>>>)[3])

LinesepResult(pool) ==
    Str(max(<<pool.LF, 3, <<LF>>>>, <<pool.CRLF, 2, <<CR, LF>>>>, <<pool.CR, 1, <<CR>>>>)[3])

(***************************************************************************)
(* tokenize.generate_tokens(file.readline), as far as INDENT tokens go:    *)
(* the tokens of one line, from the stack of indentation columns and the   *)
(* depth of open brackets.  A tab moves to the next multiple of 8; a blank *)
(* line gives NL only; a deeper first column gives INDENT with the leading *)
(* whitespace as its string, a shallower one DEDENT tokens or, when no     *)
(* enclosing column matches, IndentationError; the end of the input inside *)
(* brackets raises TokenError.                                             *)
(***************************************************************************)
TokenInfo(type, string) == [type |-> type, string |-> string]

TokenizerStart == [indents |-> <<0>>, parenlev |-> 0]

RECURSIVE Measure(_, _, _)
Measure(line, pos, column) ==
    IF pos < Len(line) /\ line[pos + 1] = SP THEN Measure(line, pos + 1, column + 1)
    ELSE IF pos < Len(line) /\ line[pos + 1] = TAB
    THEN Measure(line, pos + 1, ((column \div 8) + 1) * 8)
    ELSE [pos |-> pos, column |-> column]

\* the tokens after the leading whitespace
RECURSIVE Scan(_, _, _)
Scan(line, pos, parenlev) ==
    IF pos >= Len(line) THEN [tokens |-> <<>>, parenlev |-> parenlev]
    ELSE IF line[pos + 1] \in {SP, TAB} THEN Scan(line, pos + 1, parenlev)
    ELSE IF line[pos + 1] = "("
    THEN [Scan(line, pos + 1, parenlev + 1) EXCEPT !.tokens = <<TokenInfo("OP", <<"(">>)>> \o @]
    ELSE IF line[pos + 1] = CR /\ pos + 1 < Len(line) /\ line[pos + 2] = LF
    THEN [Scan(line, pos + 2, parenlev) EXCEPT
             !.tokens = <<TokenInfo(IF parenlev > 0 THEN "NL" ELSE "NEWLINE", <<CR, LF>>)>> \o @]
    ELSE IF line[pos + 1] = LF
    THEN [Scan(line, pos + 1, parenlev) EXCEPT
             !.tokens = <<TokenInfo(IF parenlev > 0 THEN "NL" ELSE "NEWLINE", <<LF>>)>> \o @]
    ELSE IF line[pos + 1] = CR
    THEN [Scan(line, pos + 1, parenlev) EXCEPT !.tokens = <<TokenInfo("ERRORTOKEN", <<CR>>)>> \o @]
    ELSE IF line[pos + 1] = "#"
    THEN LET \* the position after the comment: "#" and what is not CR or LF
             RECURSIVE CommentEnd(_)
             CommentEnd(p) == IF p < Len(line) /\ line[p + 1] \notin {CR, LF} THEN CommentEnd(p + 1) ELSE p
         IN  [Scan(line, CommentEnd(pos), parenlev) EXCEPT
                 !.tokens = <<TokenInfo("COMMENT", SubSeq(line, pos + 1, CommentEnd(pos)))>> \o @]
    ELSE [Scan(line, pos + 1, parenlev) EXCEPT !.tokens = <<TokenInfo("NAME", <<line[pos + 1]>>)>> \o @]

\* while column < indents[-1]: ... indents = indents[:-1]; yield DEDENT
RECURSIVE Dedent(_, _)
Dedent(indents, column) ==
    IF column < indents[Len(indents)]
    THEN IF \A i \in DOMAIN indents : indents[i] # column
         THEN [ok |-> FALSE, indents |-> indents, tokens |-> <<>>]
         ELSE [Dedent(AllButLast(indents), column) EXCEPT !.tokens = <<TokenInfo("DEDENT", <<>>)>> \o @]
    ELSE [ok |-> TRUE, indents |-> indents, tokens |-> <<>>]

\* the tokens at the end of the input
EndTokens(tok) ==
    [i \in 1..(Len(tok.indents) - 1) |-> TokenInfo("DEDENT", <<>>)] \o <<TokenInfo("ENDMARKER", <<>>)>>

\* a new statement whose first character is at m.pos, in column m.column
TokenizeStatement(tok, line, m) ==
    IF m.column > tok.indents[Len(tok.indents)]
    THEN [tok |-> [indents |-> Append(tok.indents, m.column), parenlev |-> Scan(line, m.pos, 0).parenlev],
          tokens |-> <<TokenInfo("INDENT", SubSeq(line, 1, m.pos))>> \o Scan(line, m.pos, 0).tokens,
          exc |-> None, done |-> FALSE]
    ELSE IF ~Dedent(tok.indents, m.column).ok
    THEN [tok |-> tok, tokens |-> <<>>, done |-> FALSE,
          exc |-> Raise("IndentationError", "unindent does not match any outer indentation level", None, "")]
    ELSE [tok |-> [indents |-> Dedent(tok.indents, m.column).indents, parenlev |-> Scan(line, m.pos, 0).parenlev],
          tokens |-> Dedent(tok.indents, m.column).tokens \o Scan(line, m.pos, 0).tokens,
          exc |-> None, done |-> FALSE]

\* the tokens generated from one call of readline that returned line
generate_tokens(tok, line) ==
    IF tok.parenlev > 0
    THEN IF line = <<>>
         THEN [tok |-> tok, tokens |-> <<>>, done |-> FALSE,
               exc |-> Raise("TokenError", "EOF in multi-line statement", None, "")]
         ELSE [tok |-> [tok EXCEPT !.parenlev = Scan(line, 0, tok.parenlev).parenlev],
               tokens |-> Scan(line, 0, tok.parenlev).tokens, exc |-> None, done |-> FALSE]
    ELSE IF line = <<>> \/ Measure(line, 0, 0).pos = Len(line)
    THEN [tok |-> tok, tokens |-> EndTokens(tok), exc |-> None, done |-> TRUE]
    ELSE IF line[Measure(line, 0, 0).pos + 1] \in {CR, LF}
    THEN [tok |-> tok, exc |-> None, done |-> FALSE,
          tokens |-> <<TokenInfo("NL", SubSeq(line, Measure(line, 0, 0).pos + 1, Len(line)))>>]
    ELSE IF line[Measure(line, 0, 0).pos + 1] = "#"
    THEN LET \* a line with a comment only: COMMENT up to the end of the line, then NL
             RECURSIVE CommentEnd(_)
             CommentEnd(p) == IF p < Len(line) /\ line[p + 1] \notin {CR, LF} THEN CommentEnd(p + 1) ELSE p
             start == Measure(line, 0, 0).pos
         IN  [tok |-> tok, exc |-> None, done |-> FALSE,
              tokens |-> <<TokenInfo("COMMENT", SubSeq(line, start + 1, CommentEnd(start))),
                           TokenInfo("NL", SubSeq(line, CommentEnd(start) + 1, Len(line)))>>]
    ELSE TokenizeStatement(tok, line, Measure(line, 0, 0))

(***************************************************************************)
(* detect_indentation: the vote of a token and the resolution.  votes is   *)
(* the pool and min_spaces (None or an int).                               *)
(***************************************************************************)
IndentVotes == [pool |-> [space |-> 0, tab |-> 0], min_spaces |-> None]

Contains(string, c) == \E i \in DOMAIN string : string[i] = c

min(a, b) == IF b < a THEN b ELSE a

\* the vote that keeps the length of the first pure-space token as min_spaces
IndentVoteFirstSpaces(votes, token_info) ==
    IF token_info.type = "INDENT"
    THEN IF Contains(token_info.string, TAB) /\ Contains(token_info.string, SP)
         THEN votes
         ELSE IF Contains(token_info.string, TAB)
         THEN [votes EXCEPT !.pool.tab = @ + 1]
         ELSE [votes EXCEPT !.pool.space = @ + 1,
                            !.min_spaces = IF @ = None THEN PyInt(Len(token_info.string)) ELSE @]
    ELSE votes

\* the vote without the test for mixed tokens: a token with a tab counts as tab
IndentVoteMixedAsTab(votes, token_info) ==
    IF token_info.type = "INDENT"
    THEN IF Contains(token_info.string, TAB)
         THEN [votes EXCEPT !.pool.tab = @ + 1]
         ELSE [votes EXCEPT !.pool.space = @ + 1,
                            !.min_spaces = IF @ = None THEN PyInt(Len(token_info.string))
                                           ELSE PyInt(min(@.n, Len(token_info.string)))]
    ELSE votes

IndentVote(votes, token_info) ==
    IF token_info.type = "INDENT"
    THEN IF Contains(token_info.string, TAB) /\ Contains(token_info.string, SP)
         THEN votes
         ELSE IF Contains(token_info.string, TAB)
         THEN [votes EXCEPT !.pool.tab = @ + 1]
         ELSE [votes EXCEPT !.pool.space = @ + 1,
                            !.min_spaces = IF @ = None THEN PyInt(Len(token_info.string))
                                           ELSE PyInt(min(@.n, Len(token_info.string)))]
    ELSE votes

RECURSIVE IndentVoteAll(_, _)
IndentVoteAll(votes, tokens) ==
    IF tokens = <<>> THEN votes
    ELSE IndentVoteAll(IndentVote(votes, Head(tokens)), Tail(tokens))

Spaces(n) == [i \in 1..n |-> SP]

IndentResult(votes) ==
    IF votes.pool.space > votes.pool.tab THEN Str(Spaces(votes.min_spaces.n))
    ELSE IF votes.pool.space < votes.pool.tab THEN Str(<<TAB>>)
    ELSE Str(Spaces(4))

(***************************************************************************)
(* The calls, step by step.  A call is a frame: the function (fn), where   *)
(* it stands (pc: "body" inside the with block, "exit" when the block is   *)
(* being left), the MakeTextIO instance (self), the file __enter__ gave    *)
(* back, the locals, the exception on its way out (exc), and what the call *)
(* has read (lines, INDENT tokens) and where the stream stood when it      *)
(* began (pos0).  w is the stream of the program and the frame.            *)
(***************************************************************************)
NoFrame ==
    [fn |-> "none", pc |-> "idle", self |-> None, file |-> "none", pool |-> LinesepPool,
     votes |-> IndentVotes, tok |-> TokenizerStart, lines |-> <<>>, tokens |-> <<>>,
     exc |-> None, pos0 |-> None]

NoOutcome == [fn |-> "none"]

FileOf(w) == IF w.frame.file = "sio" THEN w.frame.self.sio ELSE w.stream

WithFile(w, f) ==
    IF w.frame.file = "sio" THEN [w EXCEPT !.frame.self.sio = f] ELSE [w EXCEPT !.stream = f]

ClosedFile == Raise("ValueError", "I/O operation on closed file.", None, "")

\* fn(code), or with MakeTextIO(code) as file: up to the first statement of the block
Enter(s, fn, code, e) ==
    [stream |-> e.stream,
     frame |-> [NoFrame EXCEPT !.fn = fn, !.pc = "body", !.self = e.self, !.file = e.file,
                               !.pos0 = IF IsStr(code) THEN None ELSE PyInt(s.pos)]]

Begin(s, fn, code) == Enter(s, fn, code, MakeTextIO__enter__(s, MakeTextIO__init__(code)))

\* for line in file: ... of detect_linesep, once; r is what readline gives
LinesepLoop(w, r) ==
    IF FileOf(w).closed THEN [w EXCEPT !.frame.exc = ClosedFile, !.frame.pc = "exit"]
    ELSE IF r.line = <<>> THEN [WithFile(w, r.file) EXCEPT !.frame.pc = "exit"]
    ELSE [WithFile(w, r.file) EXCEPT !.frame.pool = LinesepVote(@, r.line),
                                      !.frame.lines = Append(@, r.line)]

NextLine(w) == LinesepLoop(w, readline(FileOf(w)))

IsIndent(token_info) == token_info.type = "INDENT"

\* for token_info in tokenize.generate_tokens(file.readline): ... of
\* detect_indentation, for the tokens of one line; g is what the tokenizer gives
IndentLoop(w, r, g) ==
    IF FileOf(w).closed THEN [w EXCEPT !.frame.exc = ClosedFile, !.frame.pc = "exit"]
    ELSE IF g.exc # None
    THEN [WithFile(w, r.file) EXCEPT !.frame.exc = g.exc, !.frame.pc = "exit",
                                      !.frame.lines = Append(@, r.line)]
    ELSE [WithFile(w, r.file) EXCEPT !.frame.votes = IndentVoteAll(@, g.tokens),
                                      !.frame.tok = g.tok,
                                      !.frame.tokens = @ \o SelectSeq(g.tokens, IsIndent),
                                      !.frame.lines = IF r.line = <<>> THEN @ ELSE Append(@, r.line),
                                      !.frame.pc = IF g.done THEN "exit" ELSE "body"]

ReadTokens(w, r) == IndentLoop(w, r, generate_tokens(w.frame.tok, r.line))

NextToken(w) == ReadTokens(w, readline(FileOf(w)))

\* file.read() in a with block
ReadAll(w, r) ==
    IF FileOf(w).closed THEN [w EXCEPT !.frame.exc = ClosedFile, !.frame.pc = "exit"]
    ELSE [WithFile(w, r.file) EXCEPT !.frame.lines = Append(@, r.data)]

\* what the call returns when no exception is on its way out
ReturnValue(f) ==
    IF f.fn = "detect_linesep" THEN LinesepResult(f.pool)
    ELSE IF f.fn = "detect_indentation" THEN IndentResult(f.votes)
    ELSE None

\* the with block is left (x is what __exit__ gives) and the call returns or raises
Exit(w, x) ==
    [stream |-> x.stream,
     frame |-> NoFrame,
     outcome |-> [fn |-> w.frame.fn, code |-> w.frame.self.obj, pos0 |-> w.frame.pos0,
                  ret |-> IF w.frame.exc # None THEN w.frame.exc ELSE ReturnValue(w.frame),
                  self |-> x.self, file |-> w.frame.file, pool |-> w.frame.pool,
                  votes |-> w.frame.votes, lines |-> w.frame.lines, tokens |-> w.frame.tokens]]

Leave(w) == Exit(w, MakeTextIO__exit__(w.stream, w.frame.self))

\* the call from its frame to its end
RECURSIVE RunToEnd(_)
RunToEnd(w) ==
    IF w.frame.pc = "exit" THEN Leave(w)
    ELSE IF w.frame.fn = "detect_linesep" THEN RunToEnd(NextLine(w))
    ELSE RunToEnd(NextToken(w))

(***************************************************************************)
(* Byte strings.  A byte is a one-character string (an ASCII byte) or the  *)
(* name of a byte above 0x7F; a character outside ASCII is named by its    *)
(* code point.  bytes.decode is given for the codecs and the bytes of the  *)
(* codes the program passes: UTF-8 decodes the byte order mark to U+FEFF   *)
(* and fails on the other bytes above 0x7F, utf-8-sig drops a leading byte *)
(* order mark, GBK decodes the pair D6 D0 to U+4E2D, ISO 8859-1 decodes    *)
(* every byte to the character of its number.                              *)
(***************************************************************************)
Bytes(bs) == [type |-> "bytes", bytes |-> bs]
IsBytes(v) == v.type = "bytes"

BOM_UTF8 == <<"0xEF", "0xBB", "0xBF">>
HighBytes == {"0xEF", "0xBB", "0xBF", "0xD6", "0xD0"}

UTF_8 == <<"u", "t", "f", "-", "8">>
UTF_8_SIG == <<"u", "t", "f", "-", "8", "-", "s", "i", "g">>
GBK == <<"g", "b", "k">>
ISO_8859_1 == <<"i", "s", "o", "-", "8", "8", "5", "9", "-", "1">>

\* the encodings lookup() finds, among the names of the codes
KnownCodecs == {UTF_8, GBK, ISO_8859_1}

startswith(line, prefix) == Len(line) >= Len(prefix) /\ SubSeq(line, 1, Len(prefix)) = prefix

\* bs.decode(encoding): the str, or UnicodeDecodeError
decode(bs, encoding) ==
    LET RECURSIVE utf_8_decode(_)
        utf_8_decode(b) ==
            IF b = <<>> THEN [ok |-> TRUE, chars |-> <<>>]
            ELSE IF Head(b) \notin HighBytes
            THEN [utf_8_decode(Tail(b)) EXCEPT !.chars = <<Head(b)>> \o @]
            ELSE IF startswith(b, BOM_UTF8)
            THEN [utf_8_decode(SubSeq(b, 4, Len(b))) EXCEPT !.chars = <<"U+FEFF">> \o @]
            ELSE [ok |-> FALSE, chars |-> <<>>]
        RECURSIVE gbk_decode(_)
        gbk_decode(b) ==
            IF b = <<>> THEN [ok |-> TRUE, chars |-> <<>>]
            ELSE IF Head(b) \notin HighBytes
            THEN [gbk_decode(Tail(b)) EXCEPT !.chars = <<Head(b)>> \o @]
            ELSE IF startswith(b, <<"0xD6", "0xD0">>)
            THEN [gbk_decode(SubSeq(b, 3, Len(b))) EXCEPT !.chars = <<"U+4E2D">> \o @]
            ELSE [ok |-> FALSE, chars |-> <<>>]
        latin_1_decode(b) ==
            [ok |-> TRUE,
             chars |-> [i \in DOMAIN b |->
                           CASE b[i] = "0xEF" -> "U+00EF" [] b[i] = "0xBB" -> "U+00BB"
                             [] b[i] = "0xBF" -> "U+00BF" [] b[i] = "0xD6" -> "U+00D6"
                             [] b[i] = "0xD0" -> "U+00D0" [] OTHER -> b[i]]]
        Decoded(d) ==
            IF d.ok THEN Str(d.chars)
            ELSE Raise("UnicodeDecodeError", "", Str(encoding), " codec can't decode byte")
    IN  IF encoding = UTF_8 THEN Decoded(utf_8_decode(bs))
        ELSE IF encoding = UTF_8_SIG
        THEN Decoded(utf_8_decode(IF startswith(bs, BOM_UTF8) THEN SubSeq(bs, 4, Len(bs)) ELSE bs))
        ELSE IF encoding = GBK THEN Decoded(gbk_decode(bs))
        ELSE Decoded(latin_1_decode(bs))

(***************************************************************************)
(* detect_encoding: tokenize.detect_encoding(file.readline)[0] on a        *)
(* BytesIO of the code.  At most two lines are read; a line ends after the *)
(* first "\n".  The result is the encoding (or the exception) and the      *)
(* lines read from the file.                                               *)
(***************************************************************************)
\* cookie_re.match(line_string): group 1 of ^[ \t\f]*#.*?coding[:=][ \t]*([-\w.]+), or
\* None (no form feed among the characters of the codes)
cookie_re(s) ==
    LET \* [-\w.]
        NameChars ==
            {"A", "B", "C", "D", "E", "F", "G", "H", "I", "J", "K", "L", "M",
             "N", "O", "P", "Q", "R", "S", "T", "U", "V", "W", "X", "Y", "Z",
             "a", "b", "c", "d", "e", "f", "g", "h", "i", "j", "k", "l", "m",
             "n", "o", "p", "q", "r", "s", "t", "u", "v", "w", "x", "y", "z",
             "0", "1", "2", "3", "4", "5", "6", "7", "8", "9", "_", "-", "."}
        RECURSIVE SkipBlanks(_)
        SkipBlanks(pos) == IF pos < Len(s) /\ s[pos + 1] \in {SP, TAB} THEN SkipBlanks(pos + 1) ELSE pos
        RECURSIVE NameEnd(_)
        NameEnd(pos) == IF pos < Len(s) /\ s[pos + 1] \in NameChars THEN NameEnd(pos + 1) ELSE pos
        \* the "#" is at position m + 1
        m == SkipBlanks(0)
        \* .*? reaches position p and coding[:=][ \t]*([-\w.]+) matches from there
        CookieAt(p) ==
            /\ \A j \in (m + 2)..p : s[j] # LF
            /\ p + 7 <= Len(s)
            /\ SubSeq(s, p + 1, p + 6) = <<"c", "o", "d", "i", "n", "g">>
            /\ s[p + 7] \in {":", "="}
            /\ NameEnd(SkipBlanks(p + 7)) > SkipBlanks(p + 7)
        \* the first position where it does
        start == CHOOSE p \in (m + 1)..Len(s) : CookieAt(p) /\ \A q \in (m + 1)..(p - 1) : ~CookieAt(q)
    IN  IF m < Len(s) /\ s[m + 1] = "#" /\ \E p \in (m + 1)..Len(s) : CookieAt(p)
        THEN Str(SubSeq(s, SkipBlanks(start + 7) + 1, NameEnd(SkipBlanks(start + 7))))
        ELSE None

_get_normal_name(orig_enc) ==
    LET ascii_uppercase ==
            <<"A", "B", "C", "D", "E", "F", "G", "H", "I", "J", "K", "L", "M",
              "N", "O", "P", "Q", "R", "S", "T", "U", "V", "W", "X", "Y", "Z">>
        ascii_lowercase ==
            <<"a", "b", "c", "d", "e", "f", "g", "h", "i", "j", "k", "l", "m",
              "n", "o", "p", "q", "r", "s", "t", "u", "v", "w", "x", "y", "z">>
        lower(c) ==
            IF \E i \in DOMAIN ascii_uppercase : ascii_uppercase[i] = c
            THEN ascii_lowercase[CHOOSE i \in DOMAIN ascii_uppercase : ascii_uppercase[i] = c]
            ELSE c
        \* orig_enc[:12].lower().replace("_", "-")
        enc == [i \in 1..min(12, Len(orig_enc)) |-> IF orig_enc[i] = "_" THEN "-" ELSE lower(orig_enc[i])]
        latin == {<<"l", "a", "t", "i", "n", "-", "1">>, ISO_8859_1,
                  <<"i", "s", "o", "-", "l", "a", "t", "i", "n", "-", "1">>}
    IN  IF enc = UTF_8 \/ startswith(enc, UTF_8 \o <<"-">>) THEN UTF_8
        ELSE IF enc \in latin \/ \E n \in latin : startswith(enc, n \o <<"-">>) THEN ISO_8859_1
        ELSE orig_enc

\* find_cookie that does not look at the byte order mark
find_cookieNoBOM(line, bom_found) ==
    IF IsExc(decode(line, UTF_8))
    THEN Raise("SyntaxError", "invalid or missing encoding declaration", None, "")
    ELSE IF cookie_re(decode(line, UTF_8).chars) = None THEN None
    ELSE LET encoding == _get_normal_name(cookie_re(decode(line, UTF_8).chars).chars)
         IN  IF encoding \notin KnownCodecs
             THEN Raise("SyntaxError", "unknown encoding: ", Str(encoding), "")
             ELSE Str(encoding)

find_cookie(line, bom_found) ==
    IF IsExc(decode(line, UTF_8))
    THEN Raise("SyntaxError", "invalid or missing encoding declaration", None, "")
    ELSE IF cookie_re(decode(line, UTF_8).chars) = None THEN None
    ELSE LET encoding == _get_normal_name(cookie_re(decode(line, UTF_8).chars).chars)
         IN  IF encoding \notin KnownCodecs
             THEN Raise("SyntaxError", "unknown encoding: ", Str(encoding), "")
             ELSE IF ~bom_found THEN Str(encoding)
             ELSE IF encoding # UTF_8 THEN Raise("SyntaxError", "encoding problem: utf-8", None, "")
             ELSE Str(encoding \o <<"-", "s", "i", "g">>)

\* tokenize.detect_encoding(file.readline) on the bytes bs
tokenize_detect_encoding(bs) ==
    LET \* the position after the line of the BytesIO that starts at position p
        LineEndAfter(p) ==
            IF \E i \in (p + 1)..Len(bs) : bs[i] = LF
            THEN CHOOSE i \in (p + 1)..Len(bs) : bs[i] = LF /\ \A j \in (p + 1)..(i - 1) : bs[j] # LF
            ELSE Len(bs)
        \* readline(), b'' at the end of the file
        read_or_stop(p) == [line |-> SubSeq(bs, p + 1, LineEndAfter(p)), pos |-> LineEndAfter(p)]
        \* blank_re.match(line): ^[ \t\f]*(?:[#\r\n]|$)
        blank_re(line) ==
            \A i \in DOMAIN line :
                line[i] \in {SP, TAB} \/ \E j \in 1..i : line[j] \in {"#", CR, LF} /\ \A k \in 1..(j - 1) : line[k] \in {SP, TAB}
        bom_found == startswith(read_or_stop(0).line, BOM_UTF8)
        default == IF bom_found THEN UTF_8_SIG ELSE UTF_8
        raw == read_or_stop(0)
        first == IF bom_found THEN SubSeq(raw.line, 4, Len(raw.line)) ELSE raw.line
        second == read_or_stop(raw.pos).line
        Detected(ret, lines) == [ret |-> ret, read |-> lines]
    IN  IF first = <<>> THEN Detected(Str(default), <<raw.line>>)
        ELSE IF find_cookie(first, bom_found) # None
        THEN Detected(find_cookie(first, bom_found), <<raw.line>>)
        ELSE IF ~blank_re(first) THEN Detected(Str(default), <<raw.line>>)
        ELSE IF second = <<>> THEN Detected(Str(default), <<raw.line, second>>)
        ELSE IF find_cookie(second, bom_found) # None
        THEN Detected(find_cookie(second, bom_found), <<raw.line, second>>)
        ELSE Detected(Str(default), <<raw.line, second>>)

detect_encoding(code) ==
    IF ~IsBytes(code)
    THEN [ret |-> Raise("TypeError", "'code' should be bytes", None, ""), read |-> <<>>]
    ELSE tokenize_detect_encoding(code.bytes)

(***************************************************************************)
(* The codes the program passes.                                           *)
(***************************************************************************)
MaxChars == 6
MaxLines == 4

RECURSIVE Concat(_)
Concat(ls) == IF ls = <<>> THEN <<>> ELSE Head(ls) \o Concat(Tail(ls))

\* every text of CR, LF and another character
LinesepTexts == SeqsUpTo({"x", CR, LF}, MaxChars)

\* texts of statements at several indentations, one of them with an open bracket
IndentLines ==
    {<<"x", LF>>, <<SP, "x", LF>>, <<SP, SP, "x", LF>>, <<TAB, "x", LF>>,
     <<SP, TAB, "x", LF>>, <<"(", LF>>}

IndentTexts == {Concat(ls) : ls \in SeqsUpTo(IndentLines, MaxLines)}

Texts == LinesepTexts \cup IndentTexts

\* the contents of the streams
StreamTexts ==
    {<<"x", LF, SP, SP, "x", CR, "x", CR, SP, "x">>,
     <<"x", CR, LF, TAB, "x", CR, LF>>,
     <<"x", LF, "x", CR, CR>>,
     <<SP, SP, "x", LF, SP, "x", LF>>,
     <<"(", LF, "x">>,
     <<>>}

\* the lines of the byte codes: a statement, a blank line, a comment, coding comments
\* (of a codec under another spelling, of no codec), bytes that are not UTF-8, a
\* line with no end
MaxCodeLines == 3

CodeLines ==
    {<<"x", LF>>, <<LF>>, <<"#", LF>>,
     <<"#", "c", "o", "d", "i", "n", "g", ":", "g", "b", "k", LF>>,
     <<"#", "c", "o", "d", "i", "n", "g", "=", "u", "t", "f", "-", "8", LF>>,
     <<"#", SP, "c", "o", "d", "i", "n", "g", ":", SP, "L", "a", "t", "i", "n", "-", "1", LF>>,
     <<"#", "c", "o", "d", "i", "n", "g", ":", "z", "z", LF>>,
     <<"0xD6", "0xD0", LF>>,
     <<"h">>}

ByteCodes ==
    {Bytes(bom \o Concat(ls)) : bom \in {<<>>, BOM_UTF8}, ls \in SeqsUpTo(CodeLines, MaxCodeLines)}

\* codes that are str
StrCodes == {Str(<<"h">>), Str(<<"x", LF>>)}

(***************************************************************************)
(* map_tasks and TaskLock.  A process is at the head of the loop of its    *)
(* call of func (pc "loop"), inside a with TaskLock() block ("inside") or  *)
(* has no call ("idle"); chunk holds the calls it still has to make and    *)
(* call the locals of the running one.  The functions are those of the     *)
(* tests: divmod (no lock), lock_user_multiple_times (a with block per     *)
(* turn of its loop) and task (one with block around a loop of prints).    *)
(***************************************************************************)
MaxTasks == 3
MaxProcesses == 2
MaxChunkSize == 2
NumRounds == 2
NumPrint == 2

nullcontext == [type |-> "nullcontext"]
TheLock == [type |-> "Lock"]

NoJob == [pc |-> "idle"]
IdleProcess == [pc |-> "idle", chunk |-> <<>>, call |-> None]

\* the functions given to map_tasks, with their posargs
Funcs ==
    {[func |-> "divmod", posargs |-> Tuple(<<3>>)],
     [func |-> "lock_user_multiple_times", posargs |-> None],
     [func |-> "task", posargs |-> None]}

\* the with blocks a call of func goes through and the statements of each
Blocks(func) ==
    IF func = "lock_user_multiple_times" THEN NumRounds ELSE IF func = "task" THEN 1 ELSE 0
BodyLen(func) == IF func = "task" THEN NumPrint ELSE 1

\* func(*posargs): the call at its first statement; x is the first parameter
Invoke(func, posargs) == [func |-> func, x |-> posargs[1], rest |-> Tail(posargs), i |-> 0, n |-> 0]

\* func, posargs, kwargs = args; return func(*posargs, **kwargs)
_mp_map_wrapper(args) == Invoke(args[1], args[2])

\* the initializer that leaves task_lock as it is
_mp_init_lockUnset(l) == nullcontext

\* global task_lock; task_lock = lock: the task_lock of the worker afterwards
_mp_init_lock(l) == l

\* TaskLock() in process p
TaskLock(locks, p) == locks[p]

\* pool.map returning the values in the order the calls returned
MapResultAsCompleted(rs) == [k \in DOMAIN rs |-> rs[k][2]]

\* what pool.map returns: the values in the order of the iterable
MapResult(rs) == [k \in DOMAIN rs |-> rs[CHOOSE j \in DOMAIN rs : rs[j][1] = k][2]]

(***************************************************************************)
(* State machine: a program that builds and uses Placeholder and           *)
(* StringInterpolation values, one statement per step.  last is the call   *)
(* just made: its operands, the value returned (or the exception raised),  *)
(* the heap before the call (pre) and the heap at its return (post).       *)
(***************************************************************************)
Init ==
    /\ heap = <<>>
    /\ last = NoCall
    /\ stream = None
    /\ frame = NoFrame
    /\ outcome = NoOutcome
    /\ job = NoJob
    /\ task_lock = [p \in {0} |-> nullcontext]
    /\ lock = None
    /\ procs = [p \in {0} |-> IdleProcess]
    /\ taskqueue = <<>>
    /\ results = <<>>
    /\ output = <<>>
    /\ tree = None
    /\ files = None
    /\ file_list = <<>>
    /\ directory_queue = <<>>
    /\ directory_visited = {}
    /\ enqueued = <<>>
    /\ detected = None

Do(op, a, b, m, r) ==
    \E keep \in BOOLEAN :
        /\ heap' = Statement(heap, r, keep)
        /\ Cardinality(StringInterpolations(heap')) <= MaxInterpolations
        /\ last' = Call(op, a, b, m, r)
        /\ UNCHANGED <<ioVars, mpVars, fsVars>>

\* p = Placeholder(name)
NewPlaceholder ==
    \E name \in NamePool \cup {NonStr} :
        /\ NumPlaceholders(heap) < MaxPlaceholders
        /\ Do("Placeholder", name, None, <<>>, Placeholder__init__(heap, name))

\* s = StringInterpolation(*args)
Construct ==
    \E args \in SeqsUpTo({Str(INJ)} \cup Refs(heap), MaxArgs) \cup {<<NonStr>>} :
        Do("StringInterpolation", Tuple(args), None, <<>>,
           StringInterpolation__init__(heap, args))

\* s = StringInterpolation.from_components(literals, placeholders)
FromComponents ==
    \E literals \in {Tuple(xs) : xs \in SeqsUpTo({Str(<<>>)}, MaxArgs) \cup {<<NonStr>>}}
                    \cup {Str(INJ)},
       placeholders \in {Tuple(xs) : xs \in SeqsUpTo(Refs(heap), MaxArgs - 1) \cup {<<NonStr>>}} :
        Do("from_components", literals, placeholders, <<>>,
           from_components(heap, literals, placeholders))

\* x = a + b
Add ==
    \E a \in {Str(INJ), NonStr} \cup Refs(heap), b \in {Str(INJ), NonStr} \cup Refs(heap) :
        /\ a.type = "ref" \/ b.type = "ref"
        /\ Do("add", a, b, <<>>, operator_add(heap, a, b))

\* x = s % substitutions
Mod ==
    \E s \in StringInterpolations(heap), m \in Substitutions(heap) :
        Do("mod", s, None, m, StringInterpolation__mod__(heap, s, m))

\* x = str(s)
ToStr ==
    \E s \in Refs(heap) :
        Do("str", s, None, <<>>, builtin_str(heap, s))

\* x = s.result
Result ==
    \E s \in StringInterpolations(heap) :
        Do("result", s, None, <<>>, StringInterpolation_result(heap, s))

\* x = (a == b)
Eq ==
    \E a \in {Str(<<>>), Str(INJ), NonStr} \cup Refs(heap),
       b \in {Str(<<>>), Str(INJ), NonStr} \cup Refs(heap) :
        /\ a.type = "ref" \/ b.type = "ref"
        /\ Do("eq", a, b, <<>>, Return(heap, Bool(operator_eq(heap, a, b))))

\* x = hash(a)
Hash ==
    \E a \in Refs(heap) :
        Do("hash", a, None, <<>>, Return(heap, [type |-> "hash", term |-> builtin_hash(heap, a)]))

Next == NewPlaceholder \/ Construct \/ FromComponents \/ Add \/ Mod \/ ToStr \/ Result \/ Eq \/ Hash

Spec == Init /\ [][Next]_vars

(***************************************************************************)
(* State machine: a program that calls detect_linesep and                  *)
(* detect_indentation on strings, or opens a stream, moves in it and calls *)
(* them on the stream, or uses MakeTextIO in a with block of its own.      *)
(***************************************************************************)
World == [stream |-> stream, frame |-> frame]

Becomes(w) ==
    /\ stream' = w.stream
    /\ frame' = w.frame

\* the calls made on the stream are counted from the start of each call
Fresh(s) == IF s = None THEN s ELSE [s EXCEPT !.calls = <<>>]

\* the codes of the next call: the stream when the program has opened one, else a
\* string (a call on a string leaves no state behind: the program makes one)
Codes(texts) ==
    IF stream # None THEN {TheStream}
    ELSE IF outcome = NoOutcome THEN {Str(t) : t \in texts}
    ELSE {}

\* file = io.StringIO(text, newline='') or file = s.makefile(newline='')
OpenStream ==
    /\ stream = None
    /\ frame.pc = "idle"
    /\ outcome = NoOutcome
    /\ \E text \in StreamTexts, canSeek \in BOOLEAN : stream' = TextIO(text, canSeek)
    /\ UNCHANGED <<frame, outcome, heap, last, mpVars, fsVars>>

\* file.seek(offset)
CallerSeek ==
    /\ stream # None
    /\ stream.seekable
    /\ frame.pc = "idle"
    /\ \E offset \in 0..Len(stream.content) :
          /\ offset # stream.pos
          /\ stream' = [Fresh(stream) EXCEPT !.pos = offset]
    /\ outcome' = NoOutcome
    /\ UNCHANGED <<frame, heap, last, mpVars, fsVars>>

\* file.readline()
CallerRead ==
    /\ stream # None
    /\ frame.pc = "idle"
    /\ stream.pos < Len(stream.content)
    /\ stream' = readline(Fresh(stream)).file
    /\ outcome' = NoOutcome
    /\ UNCHANGED <<frame, heap, last, mpVars, fsVars>>

\* detect_linesep(code), up to the loop
DetectLinesep ==
    /\ frame.pc = "idle"
    /\ \E code \in Codes(Texts) : Becomes(Begin(Fresh(stream), "detect_linesep", code))
    /\ outcome' = NoOutcome
    /\ UNCHANGED <<heap, last, mpVars, fsVars>>

\* detect_indentation(code), up to the loop
DetectIndentation ==
    /\ frame.pc = "idle"
    /\ \E code \in Codes(Texts) : Becomes(Begin(Fresh(stream), "detect_indentation", code))
    /\ outcome' = NoOutcome
    /\ UNCHANGED <<heap, last, mpVars, fsVars>>

\* with MakeTextIO(code) as file:
With ==
    /\ frame.pc = "idle"
    /\ \E code \in Codes(StreamTexts) : Becomes(Begin(Fresh(stream), "with", code))
    /\ outcome' = NoOutcome
    /\ UNCHANGED <<heap, last, mpVars, fsVars>>

\* one turn of the loop of detect_linesep
LinesepStep ==
    /\ frame.fn = "detect_linesep"
    /\ frame.pc = "body"
    /\ Becomes(NextLine(World))
    /\ UNCHANGED <<outcome, heap, last, mpVars, fsVars>>

\* the turns of the loop of detect_indentation for the tokens of one line
IndentationStep ==
    /\ frame.fn = "detect_indentation"
    /\ frame.pc = "body"
    /\ Becomes(NextToken(World))
    /\ UNCHANGED <<outcome, heap, last, mpVars, fsVars>>

\* file.read() inside the with block
BodyRead ==
    /\ frame.fn = "with"
    /\ frame.pc = "body"
    /\ FileOf(World).pos < Len(FileOf(World).content)
    /\ Becomes(ReadAll(World, read(FileOf(World))))
    /\ UNCHANGED <<outcome, heap, last, mpVars, fsVars>>

\* a statement of the with block raises
BodyRaise ==
    /\ frame.fn = "with"
    /\ frame.pc = "body"
    /\ frame' = [frame EXCEPT !.exc = Raise("Exception", "", None, ""), !.pc = "exit"]
    /\ UNCHANGED <<stream, outcome, heap, last, mpVars, fsVars>>

\* the with block reaches its end
BodyEnd ==
    /\ frame.fn = "with"
    /\ frame.pc = "body"
    /\ frame' = [frame EXCEPT !.pc = "exit"]
    /\ UNCHANGED <<stream, outcome, heap, last, mpVars, fsVars>>

\* __exit__ and the return of the call, or the exception leaving it
LeaveScope ==
    /\ frame.pc = "exit"
    /\ Becomes(Leave(World))
    /\ outcome' = Leave(World).outcome
    /\ UNCHANGED <<heap, last, mpVars, fsVars>>

DetectNext ==
    \/ OpenStream \/ CallerSeek \/ CallerRead
    \/ DetectLinesep \/ DetectIndentation \/ With
    \/ LinesepStep \/ IndentationStep
    \/ BodyRead \/ BodyRaise \/ BodyEnd
    \/ LeaveScope

DetectSpec == Init /\ [][DetectNext]_ioVars

(***************************************************************************)
(* State machine: a program that calls detect_encoding, detect_linesep,    *)
(* detect_indentation or parso_parse on bytes.  The outcome is the call    *)
(* (fn, code), the str the code was decoded to (text, None when the call   *)
(* raised before), what the call returned or raised (ret) and the lines it *)
(* read.                                                                   *)
(***************************************************************************)
BytesOutcome(fn, code, text, ret, lines) ==
    [fn |-> fn, code |-> code, text |-> text, ret |-> ret, lines |-> lines]

\* detect_linesep(code) and detect_indentation(code) on bytes: the code is decoded
\* (code = code.decode(detect_encoding(code))) and the call goes on with the str
CallOnText(fn, code) ==
    LET encoding == detect_encoding(code).ret
        text == IF IsExc(encoding) THEN encoding ELSE decode(code.bytes, encoding.chars)
        Decoded(o) == BytesOutcome(fn, code, text, o.ret, o.lines)
    IN  IF IsExc(text) THEN BytesOutcome(fn, code, None, text, <<>>)
        ELSE Decoded(RunToEnd(Begin(None, fn, text)).outcome)

\* class BPCSyntaxError(SyntaxError), and the SyntaxError classes of the interpreter
IsSyntaxError(e) == e.exc \in {"SyntaxError", "BPCSyntaxError", "IndentationError"}

\* parso_parse that lets the exception of detect_encoding through as it is
parso_parseNoReraise(code, errors) ==
    LET encoding == detect_encoding(code).ret
        text == IF ~IsBytes(code) THEN code
                ELSE IF IsExc(encoding) THEN encoding
                ELSE decode(code.bytes, encoding.chars)
    IN  IF IsExc(text) THEN BytesOutcome("parso_parse", code, None, text, <<>>)
        ELSE IF errors
        THEN BytesOutcome("parso_parse", code, text,
                          Raise("BPCSyntaxError",
                                "source file '<unknown>' contains the following syntax errors:",
                                None, ""),
                          <<>>)
        ELSE BytesOutcome("parso_parse", code, text, [type |-> "Module", code |-> text], <<>>)

\* parso_parse(code): errors is whether parso (grammar.parse, grammar.iter_errors) finds
\* syntax errors in the text
parso_parse(code, errors) ==
    LET encoding == detect_encoding(code).ret
        text == IF ~IsBytes(code) THEN code
                ELSE IF IsExc(encoding) THEN encoding
                ELSE decode(code.bytes, encoding.chars)
    IN  IF IsExc(text)
        THEN BytesOutcome("parso_parse", code, None,
                          IF IsSyntaxError(text)
                          THEN Raise("BPCSyntaxError",
                                     "failed to detect encoding for source file '<unknown>': ",
                                     text, "")
                          ELSE text,
                          <<>>)
        ELSE IF errors
        THEN BytesOutcome("parso_parse", code, text,
                          Raise("BPCSyntaxError",
                                "source file '<unknown>' contains the following syntax errors:",
                                None, ""),
                          <<>>)
        ELSE BytesOutcome("parso_parse", code, text, [type |-> "Module", code |-> text], <<>>)

\* the program makes one call and keeps its outcome
Called(o) ==
    /\ frame.pc = "idle"
    /\ stream = None
    /\ outcome = NoOutcome
    /\ outcome' = o
    /\ UNCHANGED <<stream, frame, heap, last, mpVars, fsVars>>

\* detect_encoding(code)
DetectEncoding ==
    \E code \in ByteCodes \cup StrCodes :
        Called(BytesOutcome("detect_encoding", code, None,
                            detect_encoding(code).ret, detect_encoding(code).read))

\* detect_linesep(code) on bytes
DetectLinesepBytes ==
    \E code \in ByteCodes : Called(CallOnText("detect_linesep", code))

\* detect_indentation(code) on bytes
DetectIndentationBytes ==
    \E code \in ByteCodes : Called(CallOnText("detect_indentation", code))

\* parso_parse(code)
ParsoParse ==
    \E code \in ByteCodes \cup StrCodes, errors \in BOOLEAN : Called(parso_parse(code, errors))

EncodingNext == DetectEncoding \/ DetectLinesepBytes \/ DetectIndentationBytes \/ ParsoParse

EncodingSpec == Init /\ [][EncodingNext]_ioVars

(***************************************************************************)
(* State machine: a program that calls map_tasks once.  The processes take *)
(* their steps in any order.                                               *)
(***************************************************************************)
\* map_tasks(func, iterable, posargs, processes=processes, chunksize=chunksize), up to
\* the first call of func (sequential execution) or to pool.map waiting for the
\* workers (parallel execution); CPU_CNT is the number of CPUs and patched whether
\* parallel_available was set to False
MapTasks ==
    /\ job.pc = "idle"
    /\ \E f \in Funcs, num \in 0..MaxTasks, CPU_CNT \in 1..MaxProcesses, patched \in BOOLEAN,
          processes \in {None} \cup {PyInt(k) : k \in 1..MaxProcesses},
          chunksize \in {None} \cup {PyInt(k) : k \in 1..MaxChunkSize} :
          LET parallel_available == CPU_CNT > 1 /\ ~patched
              posargs == IF f.posargs = None THEN <<>> ELSE f.posargs.items
              \* range(num)
              iterable == [k \in 1..num |-> k - 1]
              \* [(func, (item,) + tuple(posargs), kwargs) for item in iterable]
              calls == [k \in 1..num |-> [index |-> k, args |-> <<f.func, <<iterable[k]>> \o posargs>>]]
              workers == IF processes = None THEN CPU_CNT ELSE processes.n
              \* the chunk size pool.map works out when it is given none
              size == IF num = 0 THEN 0
                      ELSE IF chunksize # None THEN chunksize.n
                      ELSE (num \div (workers * 4)) + (IF num % (workers * 4) = 0 THEN 0 ELSE 1)
              chunks == [c \in 1..(IF num = 0 THEN 0 ELSE (num + size - 1) \div size) |->
                            SubSeq(calls, (c - 1) * size + 1, min(num, c * size))]
              this == [pc |-> "idle", func |-> f.func, posargs |-> f.posargs, num |-> num,
                       processes |-> processes, chunksize |-> chunksize,
                       parallel_available |-> parallel_available, result |-> None]
          IN  IF ~parallel_available \/ processes = PyInt(1)
              THEN /\ job' = [this EXCEPT !.pc = "sequential"]
                   /\ procs' = [procs EXCEPT ![0] =
                                  IF calls = <<>> THEN IdleProcess
                                  ELSE [pc |-> "loop", chunk |-> calls,
                                        call |-> Invoke(f.func, calls[1].args[2])]]
                   /\ UNCHANGED <<task_lock, lock, taskqueue>>
              ELSE /\ job' = [this EXCEPT !.pc = "parallel"]
                   /\ lock' = [locked |-> FALSE]
                   /\ procs' = [p \in 0..workers |-> IdleProcess]
                   /\ task_lock' = [p \in 0..workers |->
                                       IF p = 0 THEN task_lock[0] ELSE _mp_init_lock(TheLock)]
                   /\ taskqueue' = chunks
    /\ UNCHANGED <<results, output, heap, last, ioVars, fsVars>>

\* a worker with nothing to do takes the next chunk and makes its first call
TakeChunk ==
    /\ job.pc = "parallel"
    /\ taskqueue # <<>>
    /\ \E w \in DOMAIN procs \ {0} :
          /\ procs[w].pc = "idle"
          /\ procs' = [procs EXCEPT ![w] = [pc |-> "loop", chunk |-> Head(taskqueue),
                                            call |-> _mp_map_wrapper(Head(taskqueue)[1].args)]]
    /\ taskqueue' = Tail(taskqueue)
    /\ UNCHANGED <<job, task_lock, lock, results, output, heap, last, ioVars, fsVars>>

\* with TaskLock(): the process waits for the lock and enters the block
Acquire ==
    \E p \in DOMAIN procs :
        /\ procs[p].pc = "loop"
        /\ procs[p].call.i < Blocks(procs[p].call.func)
        /\ IF TaskLock(task_lock, p) = nullcontext THEN UNCHANGED lock
           ELSE lock.locked = FALSE /\ lock' = [locked |-> TRUE]
        /\ procs' = [procs EXCEPT ![p].pc = "inside", ![p].call.n = 0]
        /\ UNCHANGED <<job, task_lock, taskqueue, results, output, heap, last, ioVars, fsVars>>

\* a statement inside the block: x += 1 or x -= 1 (lock_user_multiple_times), or
\* print('Task %d says %d' % (task_id, i)) (task)
Body ==
    \E p \in DOMAIN procs :
        /\ procs[p].pc = "inside"
        /\ procs[p].call.n < BodyLen(procs[p].call.func)
        /\ IF procs[p].call.func = "task"
           THEN /\ output' = Append(output, [task |-> procs[p].call.x, says |-> procs[p].call.n])
                /\ procs' = [procs EXCEPT ![p].call.n = @ + 1]
           ELSE /\ procs' = [procs EXCEPT ![p].call.n = @ + 1,
                                          ![p].call.x = IF procs[p].call.i % 2 = 1 THEN @ + 1 ELSE @ - 1]
                /\ UNCHANGED output
        /\ UNCHANGED <<job, task_lock, lock, taskqueue, results, heap, last, ioVars, fsVars>>

\* the end of the block that leaves the lock as it is
ReleaseKeepsLock ==
    \E p \in DOMAIN procs :
        /\ procs[p].pc = "inside"
        /\ procs[p].call.n = BodyLen(procs[p].call.func)
        /\ procs' = [procs EXCEPT ![p].pc = "loop", ![p].call.i = @ + 1]
        /\ UNCHANGED <<job, task_lock, lock, taskqueue, results, output, heap, last, ioVars, fsVars>>

\* the end of the block: the lock is released
Release ==
    \E p \in DOMAIN procs :
        /\ procs[p].pc = "inside"
        /\ procs[p].call.n = BodyLen(procs[p].call.func)
        /\ IF TaskLock(task_lock, p) = nullcontext THEN UNCHANGED lock
           ELSE lock' = [locked |-> FALSE]
        /\ procs' = [procs EXCEPT ![p].pc = "loop", ![p].call.i = @ + 1]
        /\ UNCHANGED <<job, task_lock, taskqueue, results, output, heap, last, ioVars, fsVars>>

\* func returns; the process makes the next call of its chunk or has nothing to do
TaskReturn ==
    \E p \in DOMAIN procs :
        /\ procs[p].pc = "loop"
        /\ procs[p].call.i = Blocks(procs[p].call.func)
        /\ LET c == procs[p].call
               value == IF c.func = "divmod"
                        THEN Tuple(<<PyInt(c.x \div c.rest[1]), PyInt(c.x % c.rest[1])>>)
                        ELSE IF c.func = "task" THEN None
                        ELSE PyInt(c.x)
               rest == Tail(procs[p].chunk)
           IN  /\ results' = Append(results, <<Head(procs[p].chunk).index, value>>)
               /\ procs' = [procs EXCEPT ![p] =
                              IF rest = <<>> THEN IdleProcess
                              ELSE [pc |-> "loop", chunk |-> rest,
                                    call |-> IF p = 0 THEN Invoke(job.func, rest[1].args[2])
                                             ELSE _mp_map_wrapper(rest[1].args)]]
        /\ UNCHANGED <<job, task_lock, lock, taskqueue, output, heap, last, ioVars, fsVars>>

\* map_tasks returns: the list of the sequential execution, or the result of pool.map
\* after the pool is left and task_lock is set to nullcontext()
ReturnResult ==
    /\ job.pc \in {"sequential", "parallel"}
    /\ Len(results) = job.num
    /\ \A p \in DOMAIN procs : procs[p].pc = "idle"
    /\ IF job.pc = "sequential"
       THEN /\ job' = [job EXCEPT !.pc = "returned", !.result = Tuple([k \in DOMAIN results |-> results[k][2]])]
            /\ UNCHANGED <<task_lock, procs>>
       ELSE /\ job' = [job EXCEPT !.pc = "returned", !.result = Tuple(MapResult(results))]
            /\ procs' = [p \in {0} |-> IdleProcess]
            /\ task_lock' = [p \in {0} |-> nullcontext]
    /\ UNCHANGED <<lock, taskqueue, results, output, heap, last, ioVars, fsVars>>

PoolNext == MapTasks \/ TakeChunk \/ Acquire \/ Body \/ Release \/ TaskReturn \/ ReturnResult

PoolSpec == Init /\ [][PoolNext]_mpVars

\* the processes are scheduled: a step is taken as long as one can be
FairPoolSpec == PoolSpec /\ WF_mpVars(PoolNext)

(***************************************************************************)
(* detect_files: the walk over the directories.  A path is the pair        *)
(* (root, ext) that os.path.splitext returns for it.  The file system is   *)
(* given by what os.listdir returns for every directory and by the         *)
(* resolved target of every item: a directory, a regular file or neither   *)
(* (a broken link or a loop of links).  Links to directories make the      *)
(* graph of the directories arbitrary, cycles included.                    *)
(***************************************************************************)
MaxDirs == 2
MaxItems == 2
MaxFiles == 2

Path(root, ext) == [root |-> root, ext |-> ext]

Directories == {Path("/d" \o ToString(i), "") : i \in 1..MaxDirs}

\* the regular files: /hardlink.py is a hard link to /a.py
RegularFiles == {Path("/a", ".py"), Path("/hardlink", ".py"), Path("/dir/apy", ""), Path("/dir/bpy", ".py")}

st_ino(file) ==
    IF file.root \in {"/a", "/hardlink"} THEN 1 ELSE IF file.root = "/dir/apy" THEN 2 ELSE 3

Missing == Path("", "")

isdir(path) == path \in Directories
isfile(path) == path \in RegularFiles

\* an item of a listing: its name and what os.path.realpath gives for it
Item(root, ext, realpath) == [name |-> Path(root, ext), realpath |-> realpath]

Items ==
    {Item("sub" \o ToString(i), "", Path("/d" \o ToString(i), "")) : i \in 1..MaxDirs}
        \cup {Item("a", ".py", Path("/a", ".py")),
              Item("hardlink", ".py", Path("/hardlink", ".py")),
              Item("symlink1", ".py", Path("/dir/apy", "")),
              Item("symlink2", "", Path("/dir/bpy", ".py")),
              Item("apy", "", Path("/dir/apy", "")),
              Item("loop1", "", Missing)}

Listings == {l \in SUBSET Items : Cardinality(l) <= MaxItems}

FileSystems == {[listdir |-> t] : t \in [Directories -> Listings]}

\* what the user names: directories, files (with or without .py) and names of nothing
UserFiles == Directories \cup {Path("/a", ".py"), Path("/dir/apy", ""), Missing}

os_path_join(directory, item) == Path(directory.root \o "/" \o item.root, item.ext)

is_python_filename(filename) == filename.ext \in {".py", ".pyw"}

\* the loop over the items of a directory, without the test of directory_visited
RECURSIVE ScanItemsUnchecked(_, _, _)
ScanItemsUnchecked(listing, directory, st) ==
    IF listing = <<>> THEN st
    ELSE LET item_path == os_path_join(directory, Head(listing).name)
             item_realpath == Head(listing).realpath
         IN  IF isfile(item_realpath) /\ (is_python_filename(item_path) \/ is_python_filename(item_realpath))
             THEN ScanItemsUnchecked(Tail(listing), directory,
                                     [st EXCEPT !.file_list = Append(@, item_realpath)])
             ELSE IF isdir(item_realpath)
             THEN ScanItemsUnchecked(Tail(listing), directory,
                                     [st EXCEPT !.directory_queue = <<item_realpath>> \o @,
                                                !.directory_visited = @ \cup {item_realpath},
                                                !.enqueued = Append(@, item_realpath)])
             ELSE ScanItemsUnchecked(Tail(listing), directory, st)

\* for item in os.listdir(directory): a file with a Python name, by its own path or by
\* its resolved path, is listed; a directory not visited yet is put on the queue
RECURSIVE ScanItems(_, _, _)
ScanItems(listing, directory, st) ==
    IF listing = <<>> THEN st
    ELSE LET item_path == os_path_join(directory, Head(listing).name)
             item_realpath == Head(listing).realpath
         IN  IF isfile(item_realpath) /\ (is_python_filename(item_path) \/ is_python_filename(item_realpath))
             THEN ScanItems(Tail(listing), directory, [st EXCEPT !.file_list = Append(@, item_realpath)])
             ELSE IF isdir(item_realpath) /\ item_realpath \notin st.directory_visited
             THEN ScanItems(Tail(listing), directory,
                            [st EXCEPT !.directory_queue = <<item_realpath>> \o @,
                                       !.directory_visited = @ \cup {item_realpath},
                                       !.enqueued = Append(@, item_realpath)])
             ELSE ScanItems(Tail(listing), directory, st)

\* the files, directories and links are made before detect_files is called
setup_files_for_tests ==
    /\ tree = None
    /\ \E fs \in FileSystems : tree' = fs
    /\ UNCHANGED <<files, file_list, directory_queue, directory_visited, enqueued, detected,
                   heap, last, ioVars, mpVars>>

\* detect_files(files) is called: the files and directories named by the user
DetectFiles ==
    /\ tree # None
    /\ files = None
    /\ \E user \in SeqsUpTo(UserFiles, MaxFiles) :
        LET RECURSIVE TopLevel(_, _)
            TopLevel(fl, st) ==
                IF fl = <<>> THEN st
                ELSE LET file == Head(fl)
                     IN  IF isfile(file)
                         THEN TopLevel(Tail(fl), [st EXCEPT !.file_list = Append(@, file)])
                         ELSE IF isdir(file)
                         THEN TopLevel(Tail(fl), [st EXCEPT !.directory_queue = <<file>> \o @,
                                                            !.directory_visited = @ \cup {file}])
                         ELSE TopLevel(Tail(fl), st)
            st == TopLevel(user, [file_list |-> <<>>, directory_queue |-> <<>>, directory_visited |-> {}])
        IN  /\ files' = Tuple(user)
            /\ file_list' = st.file_list
            /\ directory_queue' = st.directory_queue
            /\ directory_visited' = st.directory_visited
    /\ UNCHANGED <<tree, enqueued, detected, heap, last, ioVars, mpVars>>

\* one turn of while directory_queue: the directory at the right end is taken and its
\* items are gone through in the order os.listdir gives them, which is any order
ScanDirectory ==
    /\ files # None
    /\ detected = None
    /\ directory_queue # <<>>
    /\ LET directory == directory_queue[Len(directory_queue)]
           items == tree.listdir[directory]
       IN  \E listing \in {l \in [1..Cardinality(items) -> items] :
                                \A i \in DOMAIN l : \A j \in DOMAIN l : l[i] = l[j] => i = j} :
               LET st == ScanItems(listing, directory,
                                   [file_list |-> file_list,
                                    directory_queue |-> SubSeq(directory_queue, 1, Len(directory_queue) - 1),
                                    directory_visited |-> directory_visited,
                                    enqueued |-> enqueued])
               IN  /\ file_list' = st.file_list
                   /\ directory_queue' = st.directory_queue
                   /\ directory_visited' = st.directory_visited
                   /\ enqueued' = st.enqueued
    /\ UNCHANGED <<tree, files, detected, heap, last, ioVars, mpVars>>

\* the queue is empty: one path is kept for every (st_ino, st_dev), the last one listed,
\* in the order in which the files were first listed
ReturnFiles ==
    /\ files # None
    /\ detected = None
    /\ directory_queue = <<>>
    /\ LET RECURSIVE file_dict(_)
           file_dict(n) ==
               IF n = 0 THEN [keys |-> <<>>, value |-> <<>>]
               ELSE LET d == file_dict(n - 1)
                        key == st_ino(file_list[n])
                    IN  IF \E k \in DOMAIN d.keys : d.keys[k] = key
                        THEN [d EXCEPT !.value = [k \in DOMAIN d.keys |->
                                                     IF d.keys[k] = key THEN file_list[n] ELSE d.value[k]]]
                        ELSE [keys |-> Append(d.keys, key), value |-> Append(d.value, file_list[n])]
       IN  detected' = Tuple(file_dict(Len(file_list)).value)
    /\ UNCHANGED <<tree, files, file_list, directory_queue, directory_visited, enqueued,
                   heap, last, ioVars, mpVars>>

WalkNext == setup_files_for_tests \/ DetectFiles \/ ScanDirectory \/ ReturnFiles

WalkSpec == Init /\ [][WalkNext]_fsVars

\* the call runs: it takes its next step as long as it has one
FairWalkSpec == WalkSpec /\ WF_fsVars(WalkNext)

(***************************************************************************)
(* Properties of substitution (%).                                         *)
(***************************************************************************)
Literals(h, s) == h[s.id].literals
PlaceholdersOf(h, s) == h[s.id].placeholders
NameOf(h, p) == h[p.id].name.chars
Names(h, s) == [i \in DOMAIN PlaceholdersOf(h, s) |-> NameOf(h, PlaceholdersOf(h, s)[i])]
NameSet(h, s) == {Names(h, s)[i] : i \in DOMAIN Names(h, s)}
ContainsINJ(cs) == \E i \in 1..(Len(cs) - Len(INJ) + 1) : SubSeq(cs, i, i + Len(INJ) - 1) = INJ

ModReturned == last.op = "mod" /\ ~IsExc(last.ret)

\* The text of a value that str() accepts.
TextOf(h, v) ==
    IF IsStr(v) THEN v.chars
    ELSE IF v.type = "int" THEN int__str__(v).chars
    ELSE Literals(h, v)[1].chars

\* Walking the components cs in order: text is appended to the literal being built,
\* a placeholder that m names is replaced by the text of its value, any other
\* placeholder closes the literal being built and starts the next one.
RECURSIVE Walk(_, _, _, _, _)
Walk(h, cs, m, lits, phs) ==
    IF cs = <<>> THEN [literals |-> lits, placeholders |-> phs]
    ELSE LET c == Head(cs)
             n == Len(lits)
         IN  IF IsStr(c)
             THEN Walk(h, Tail(cs), m, [lits EXCEPT ![n] = Str(lits[n].chars \o c.chars)], phs)
             ELSE IF NameOf(h, c) \in DOMAIN m
             THEN Walk(h, Tail(cs), m,
                       [lits EXCEPT ![n] = Str(lits[n].chars \o TextOf(h, m[NameOf(h, c)]))], phs)
             ELSE Walk(h, Tail(cs), m, Append(lits, Str(<<>>)), Append(phs, c))

\* the components L0, P0, L1, ..., Ln of a well-formed StringInterpolation
Components(h, s) ==
    [i \in 1..(2 * Len(PlaceholdersOf(h, s)) + 1) |->
        IF i % 2 = 1 THEN Literals(h, s)[(i + 1) \div 2] ELSE PlaceholdersOf(h, s)[i \div 2]]

\* C1: the placeholders of S % m are exactly the placeholders of S whose names are not
\* keys of m, in their original order (the same Placeholder objects, with the same
\* names); no substituted value adds a placeholder.
C1_InjectionSafety ==
    ModReturned =>
        LET NotKey(p) == NameOf(last.pre, p) \notin DOMAIN last.m
        IN  /\ PlaceholdersOf(last.post, last.ret) = SelectSeq(PlaceholdersOf(last.pre, last.a), NotKey)
            /\ \A i \in DOMAIN PlaceholdersOf(last.post, last.ret) :
                 /\ IsPlaceholder(last.pre, PlaceholdersOf(last.post, last.ret)[i])
                 /\ NameOf(last.post, PlaceholdersOf(last.post, last.ret)[i])
                      = NameOf(last.pre, PlaceholdersOf(last.post, last.ret)[i])

\* S has placeholders q and y, the value substituted for q is the text "%(y)s", and
\* the result has the placeholder y of S only
C1_Witness ==
    /\ ModReturned
    /\ Names(last.pre, last.a) = <<<<"q">>, <<"y">>>>
    /\ DOMAIN last.m = {<<"q">>}
    /\ last.m[<<"q">>] = Str(INJ)
    /\ Names(last.post, last.ret) = <<<<"y">>>>
    /\ ContainsINJ(Literals(last.post, last.ret)[1].chars)

\* C2: S % m is the walk over the components of S that replaces each placeholder named
\* by m with the text of its value, merged into the adjacent literals, and leaves the
\* other placeholders in place; every occurrence of a repeated name is replaced.
C2_SubstitutionResult ==
    ModReturned =>
        LET w == Walk(last.pre, Components(last.pre, last.a), last.m, <<Str(<<>>)>>, <<>>)
        IN  /\ Literals(last.post, last.ret) = w.literals
            /\ PlaceholdersOf(last.post, last.ret) = w.placeholders

\* S has the name q twice and m maps q to 66; both occurrences are replaced
C2_Witness ==
    /\ ModReturned
    /\ Names(last.pre, last.a) = <<<<"q">>, <<"q">>>>
    /\ DOMAIN last.m = {<<"q">>}
    /\ last.m[<<"q">>] = NonStr
    /\ Literals(last.post, last.ret) = <<Str(<<"6", "6", "6", "6">>)>>

\* C3: when no placeholder of S has a name that is a key of m, S % m returns a value
\* equal to S (same literals, same placeholders); so text produced by an earlier round,
\* whatever it looks like, is not altered by a later round.
C3_LaterRoundKeepsText ==
    (last.op = "mod" /\ NameSet(last.pre, last.a) \cap DOMAIN last.m = {}) =>
        /\ ~IsExc(last.ret)
        /\ StringInterpolation__eq__(last.post, last.ret, last.a)
        /\ StringInterpolation__eq__(last.post, last.a, last.ret)
        /\ Literals(last.post, last.ret) = Literals(last.pre, last.a)
        /\ PlaceholdersOf(last.post, last.ret) = PlaceholdersOf(last.pre, last.a)

\* S is fully resolved, its text contains "%(y)s", and m has the key y
C3_Witness ==
    /\ ModReturned
    /\ PlaceholdersOf(last.pre, last.a) = <<>>
    /\ ContainsINJ(Literals(last.pre, last.a)[1].chars)
    /\ <<"y">> \in DOMAIN last.m
    /\ Literals(last.post, last.ret) = Literals(last.pre, last.a)

\* (S % m1) % m2, S % (m1 union m2) and (S % m2) % m1, the first round of the first one
\* being the call r1 already made; each call runs on the heap the previous one left
Rounds(S, m1, m2, r1) ==
    LET r12 == IF IsExc(r1.ret) THEN r1 ELSE StringInterpolation__mod__(r1.heap, r1.ret, m2)
        u == StringInterpolation__mod__(r12.heap, S, m1 @@ m2)
        r2 == StringInterpolation__mod__(u.heap, S, m2)
        r21 == IF IsExc(r2.ret) THEN r2 ELSE StringInterpolation__mod__(r2.heap, r2.ret, m1)
    IN  [r12 |-> r12, u |-> u, r21 |-> r21]

\* C4: for m1 and m2 with disjoint keys, (S % m1) % m2, S % (m1 union m2) and
\* (S % m2) % m1 are equal (or all three raise); when the keys cover every placeholder
\* of S the result has no placeholder left and its text is the text of S with each
\* placeholder replaced by the text of its value.
C4_RoundsCompose ==
    last.op = "mod" =>
        \A m2 \in Substitutions(last.pre) :
            DOMAIN m2 \cap DOMAIN last.m = {} =>
                LET x == Rounds(last.a, last.m, m2, [heap |-> last.post, ret |-> last.ret])
                    h == x.r21.heap
                IN  IF IsExc(x.r12.ret) \/ IsExc(x.u.ret) \/ IsExc(x.r21.ret)
                    THEN IsExc(x.r12.ret) /\ IsExc(x.u.ret) /\ IsExc(x.r21.ret)
                    ELSE /\ StringInterpolation__eq__(h, x.r12.ret, x.u.ret)
                         /\ StringInterpolation__eq__(h, x.u.ret, x.r21.ret)
                         /\ Literals(h, x.r12.ret) = Literals(h, x.r21.ret)
                         /\ NameSet(last.pre, last.a) \subseteq DOMAIN (last.m @@ m2) =>
                              /\ PlaceholdersOf(h, x.r12.ret) = <<>>
                              /\ StringInterpolation__str__(h, x.r12.ret).ret
                                   = Walk(last.pre, Components(last.pre, last.a), last.m @@ m2,
                                          <<Str(<<>>)>>, <<>>).literals[1]

\* S has the placeholders q and y, the round made replaced q by "%(y)s", and the round
\* that replaces y by 66 then gives the text "%(y)s66" with no placeholder left
C4_Witness ==
    /\ ModReturned
    /\ Names(last.pre, last.a) = <<<<"q">>, <<"y">>>>
    /\ last.m = (<<"q">> :> Str(INJ))
    /\ LET x == Rounds(last.a, last.m, <<"y">> :> NonStr, [heap |-> last.post, ret |-> last.ret])
       IN  /\ ~IsExc(x.r12.ret)
           /\ Literals(x.r12.heap, x.r12.ret) = <<Str(INJ \o <<"6", "6">>)>>
           /\ PlaceholdersOf(x.r12.heap, x.r12.ret) = <<>>

(***************************************************************************)
(* Properties of construction.                                             *)
(***************************************************************************)
WellFormed(h, s) ==
    /\ Len(Literals(h, s)) = Len(PlaceholdersOf(h, s)) + 1
    /\ \A i \in DOMAIN Literals(h, s) : IsStr(Literals(h, s)[i])
    /\ \A i \in DOMAIN PlaceholdersOf(h, s) : IsPlaceholder(h, PlaceholdersOf(h, s)[i])

ReturnedInterpolation == last.ret.type = "ref" /\ IsStringInterpolation(last.post, last.ret)

\* C5: every StringInterpolation the program holds, and every one a call returns, has
\* one literal more than it has placeholders, its literals being str and its
\* placeholders Placeholder objects.
C5_StructuralInvariant ==
    /\ \A s \in StringInterpolations(heap) : WellFormed(heap, s)
    /\ ReturnedInterpolation => WellFormed(last.post, last.ret)

\* a StringInterpolation + a Placeholder returned a value with two placeholders
C5_Witness ==
    /\ last.op = "add"
    /\ IsStringInterpolation(last.pre, last.a)
    /\ IsPlaceholder(last.pre, last.b)
    /\ ReturnedInterpolation
    /\ Len(PlaceholdersOf(last.post, last.ret)) = 2
    /\ Len(Literals(last.post, last.ret)) = 3

\* the components of the arguments of the constructor, nested values spliced in
RECURSIVE Flatten(_, _)
Flatten(h, args) ==
    IF args = <<>> THEN <<>>
    ELSE (IF IsStringInterpolation(h, Head(args)) THEN Components(h, Head(args)) ELSE <<Head(args)>>)
         \o Flatten(h, Tail(args))

ValidArgs(h, args) ==
    \A i \in DOMAIN args :
        IsStr(args[i]) \/ IsPlaceholder(h, args[i]) \/ IsStringInterpolation(h, args[i])

\* C6: StringInterpolation(a1, ..., ak) has as placeholders the Placeholders of the
\* arguments in order, nested ones spliced in, and as literals the concatenation of the
\* text between consecutive placeholders (the empty string where there is none).
C6_CanonicalForm ==
    (last.op = "StringInterpolation" /\ ValidArgs(last.pre, last.a.items)) =>
        LET w == Walk(last.pre, Flatten(last.pre, last.a.items), <<>>, <<Str(<<>>)>>, <<>>)
        IN  /\ ReturnedInterpolation
            /\ Literals(last.post, last.ret) = w.literals
            /\ PlaceholdersOf(last.post, last.ret) = w.placeholders

\* StringInterpolation(S, "%(y)s") with S = (Placeholder, "%(y)s"): the text is merged
\* into the last literal of S
C6_Witness ==
    /\ last.op = "StringInterpolation"
    /\ Len(last.a.items) = 2
    /\ IsStringInterpolation(last.pre, last.a.items[1])
    /\ Literals(last.pre, last.a.items[1]) = <<Str(<<>>), Str(INJ)>>
    /\ last.a.items[2] = Str(INJ)
    /\ ReturnedInterpolation
    /\ Literals(last.post, last.ret) = <<Str(<<>>), Str(INJ \o INJ)>>
    /\ PlaceholdersOf(last.post, last.ret) = PlaceholdersOf(last.pre, last.a.items[1])

(***************************************************************************)
(* Properties of finalization, of the operands, of == and of hash().       *)
(***************************************************************************)
\* the names of a set of names, each once, in ascending order, as the error lists them
ListedNames(ns) ==
    IF ns = {<<"q">>} THEN <<"'", "q", "'">>
    ELSE IF ns = {<<"y">>} THEN <<"'", "y", "'">>
    ELSE <<"'", "q", "'", ",", " ", "'", "y", "'">>

\* C7: str(S) and S.result return the text of S exactly when S has no placeholder;
\* otherwise they raise ValueError with the names of the remaining placeholders, sorted
\* and each listed once.  A construction from one text has that text as its str().
C7_Finalization ==
    /\ (last.op \in {"str", "result"} /\ IsStringInterpolation(last.pre, last.a)) =>
          IF PlaceholdersOf(last.pre, last.a) = <<>>
          THEN last.ret = Literals(last.pre, last.a)[1] /\ IsStr(last.ret)
          ELSE /\ IsExc(last.ret)
               /\ last.ret.exc = "ValueError"
               /\ last.ret.arg = Str(ListedNames(NameSet(last.pre, last.a)))
    /\ (last.op = "StringInterpolation" /\ Len(last.a.items) = 1 /\ IsStr(last.a.items[1])) =>
          /\ ReturnedInterpolation
          /\ builtin_str(last.post, last.ret).ret = last.a.items[1]

\* S.result on a value with the placeholders y, q in that order lists 'q', 'y'
C7_Witness ==
    /\ last.op = "result"
    /\ Names(last.pre, last.a) = <<<<"y">>, <<"q">>>>
    /\ IsExc(last.ret)
    /\ last.ret.arg = Str(<<"'", "q", "'", ",", " ", "'", "y", "'">>)

\* C8: + and % leave every object that existed before the call as it was and return
\* a StringInterpolation that did not exist before the call.
C8_Immutability ==
    last.op \in {"add", "mod"} =>
        /\ \A i \in DOMAIN last.pre : last.post[i] = last.pre[i]
        /\ SubSeq(heap, 1, Len(last.pre)) = last.pre
        /\ ~IsExc(last.ret) => (ReturnedInterpolation /\ last.ret.id > Len(last.pre))

\* S + "%(y)s" on a value S with a placeholder returned a new object and S has the
\* literals it had
C8_Witness ==
    /\ last.op = "add"
    /\ IsStringInterpolation(last.pre, last.a)
    /\ PlaceholdersOf(last.pre, last.a) # <<>>
    /\ last.b = Str(INJ)
    /\ ReturnedInterpolation
    /\ last.ret.id > Len(last.pre)
    /\ Literals(last.post, last.ret) # Literals(last.pre, last.a)
    /\ Literals(heap, last.a) = Literals(last.pre, last.a)

CompareValues(h) == {Str(<<>>), Str(INJ), NonStr} \cup {r \in Refs(h) : IsPlaceholder(h, r) \/ WellFormed(h, r)}

\* what s == v must be for a StringInterpolation s
ExpectedEq(h, s, v) ==
    IF IsStringInterpolation(h, v)
    THEN Literals(h, s) = Literals(h, v) /\ Names(h, s) = Names(h, v)
    ELSE IF IsStr(v)
    THEN PlaceholdersOf(h, s) = <<>> /\ Literals(h, s) = <<v>>
    ELSE IF IsPlaceholder(h, v)
    THEN Names(h, s) = <<NameOf(h, v)>> /\ Literals(h, s) = <<Str(<<>>), Str(<<>>)>>
    ELSE FALSE

\* C9: a StringInterpolation equals another one iff both sequences are equal, a str t
\* iff it has no placeholder and its literal is t, a Placeholder p iff its placeholders
\* are (p) and both literals are empty; it equals nothing else.  Checked for the
\* comparisons the program makes and for every pair of values a call leaves.
C9_EqualityLaws ==
    /\ (last.op = "eq" /\ IsStringInterpolation(last.pre, last.a)) =>
          last.ret = Bool(ExpectedEq(last.pre, last.a, last.b))
    /\ ~IsExc(last.ret) =>
          \A s \in StringInterpolations(last.post), v \in CompareValues(last.post) :
              WellFormed(last.post, s) =>
                  StringInterpolation__eq__(last.post, s, v) = ExpectedEq(last.post, s, v)

\* a StringInterpolation made of one placeholder was compared with a Placeholder
\* object of the same name and found equal
C9_Witness ==
    /\ last.op = "eq"
    /\ IsStringInterpolation(last.pre, last.a)
    /\ IsPlaceholder(last.pre, last.b)
    /\ last.ret = Bool(TRUE)

\* C10: s == v implies hash(s) = hash(v) for v a StringInterpolation, a str or a
\* Placeholder; a value without placeholders hashes like its literal and a bare
\* placeholder like its Placeholder.
C10_HashRespectsEquality ==
    ~IsExc(last.ret) =>
        \A s \in StringInterpolations(last.post) :
            WellFormed(last.post, s) =>
                /\ \A v \in CompareValues(last.post) \ {NonStr} :
                      StringInterpolation__eq__(last.post, s, v) =>
                          StringInterpolation__hash__(last.post, s) = builtin_hash(last.post, v)
                /\ PlaceholdersOf(last.post, s) = <<>> =>
                      StringInterpolation__hash__(last.post, s) = str__hash__(Literals(last.post, s)[1])
                /\ Literals(last.post, s) = <<Str(<<>>), Str(<<>>)>> =>
                      StringInterpolation__hash__(last.post, s)
                        = Placeholder__hash__(last.post, PlaceholdersOf(last.post, s)[1])

\* hash() of a StringInterpolation made of one placeholder gave the hash of a
\* Placeholder object the program holds
C10_Witness ==
    /\ last.op = "hash"
    /\ IsStringInterpolation(last.pre, last.a)
    /\ Literals(last.pre, last.a) = <<Str(<<>>), Str(<<>>)>>
    /\ \E p \in Placeholders(heap) :
          /\ StringInterpolation__eq__(heap, last.a, p)
          /\ last.ret.term = Placeholder__hash__(heap, p)


(***************************************************************************)
(* Properties of the operand types of + and of from_components.            *)
(***************************************************************************)
IsOperand(h, v) == IsStr(v) \/ IsPlaceholder(h, v) \/ IsStringInterpolation(h, v)

\* C11: a + b returns a StringInterpolation for every pair of str, Placeholder and
\* StringInterpolation operands other than two str; with an operand of another type
\* (an int, on the left or on the right) the methods called return NotImplemented and
\* the expression raises TypeError.
C11_ConcatenationTypes ==
    (last.op = "add" /\ ~(IsStr(last.a) /\ IsStr(last.b))) =>
        IF IsOperand(last.pre, last.a) /\ IsOperand(last.pre, last.b)
        THEN ReturnedInterpolation
        ELSE /\ Dunder_add(last.pre, last.a, last.b).ret = NotImplemented
             /\ \/ TypeOf(last.pre, last.a) = TypeOf(last.pre, last.b)
                \/ Dunder_radd(last.pre, last.b, last.a).ret = NotImplemented
             /\ IsExc(last.ret)
             /\ last.ret.exc = "TypeError"

\* 66 + S was evaluated for a StringInterpolation S and raised TypeError
C11_Witness ==
    /\ last.op = "add"
    /\ last.a = NonStr
    /\ IsStringInterpolation(last.pre, last.b)
    /\ IsExc(last.ret)
    /\ last.ret.exc = "TypeError"


\* the defects of the arguments of from_components
LiteralsIsStr == IsStr(last.a)
LengthMismatch == ~LiteralsIsStr /\ Len(last.a.items) # Len(last.b.items) + 1
NonStrLiteral == ~LiteralsIsStr /\ \E i \in DOMAIN last.a.items : ~IsStr(last.a.items[i])
NonPlaceholder == \E i \in DOMAIN last.b.items : ~IsPlaceholder(last.pre, last.b.items[i])

\* C12: from_components returns a value exactly when the arguments have no defect, and
\* the value has the literals and placeholders given; otherwise it raises ValueError
\* only for a length mismatch and TypeError only for literals being a str, a non-str
\* literal or a non-Placeholder placeholder, and the program holds no
\* StringInterpolation that violates the invariant.
C12_FromComponentsErrors ==
    last.op = "from_components" =>
        /\ IF ~(LiteralsIsStr \/ LengthMismatch \/ NonStrLiteral \/ NonPlaceholder)
           THEN /\ ReturnedInterpolation
                /\ Literals(last.post, last.ret) = last.a.items
                /\ PlaceholdersOf(last.post, last.ret) = last.b.items
           ELSE /\ IsExc(last.ret)
                /\ last.ret.exc \in {"ValueError", "TypeError"}
                /\ last.ret.exc = "ValueError" => LengthMismatch
                /\ last.ret.exc = "TypeError" => (LiteralsIsStr \/ NonStrLiteral \/ NonPlaceholder)
        /\ \A s \in StringInterpolations(heap) : WellFormed(heap, s)

\* from_components(('', ''), (66,)) raised TypeError for the value 66
C12_Witness ==
    /\ last.op = "from_components"
    /\ last.a = Tuple(<<Str(<<>>), Str(<<>>)>>)
    /\ last.b = Tuple(<<NonStr>>)
    /\ IsExc(last.ret)
    /\ last.ret.exc = "TypeError"
    /\ last.ret.arg = NonStr


(***************************************************************************)
(* Properties of detect_linesep.                                           *)
(***************************************************************************)
\* the text a call had to read: the string, the whole content of a seekable stream,
\* the rest of a stream that is not seekable
TextRead(o) ==
    IF IsStr(o.code) THEN o.code.chars
    ELSE IF stream.seekable THEN stream.content
    ELSE SubSeq(stream.content, o.pos0.n + 1, Len(stream.content))

\* the numbers of terminators of each class in a text, counted on its characters
CountCRLF(cs) == Cardinality({i \in DOMAIN cs : cs[i] = CR /\ i < Len(cs) /\ cs[i + 1] = LF})
CountCR(cs) == Cardinality({i \in DOMAIN cs : cs[i] = CR /\ ~(i < Len(cs) /\ cs[i + 1] = LF)})
CountLF(cs) == Cardinality({i \in DOMAIN cs : cs[i] = LF /\ ~(i > 1 /\ cs[i - 1] = CR)})

Returned(fn) == outcome.fn = fn /\ ~IsExc(outcome.ret)

\* C13: detect_linesep counts the lines ending in CR, in CRLF (as CRLF only) and in LF,
\* a line without terminator in no class, and returns the class with the highest
\* count, LF before CRLF before CR among equal counts, whatever the order of the
\* lines; a text without terminated line gives LF.
C13_LinesepVote ==
    Returned("detect_linesep") =>
        /\ outcome.pool = [CR |-> CountCR(TextRead(outcome)),
                           CRLF |-> CountCRLF(TextRead(outcome)),
                           LF |-> CountLF(TextRead(outcome))]
        /\ outcome.ret =
              IF outcome.pool.LF >= outcome.pool.CRLF /\ outcome.pool.LF >= outcome.pool.CR
              THEN Str(<<LF>>)
              ELSE IF outcome.pool.CRLF >= outcome.pool.CR THEN Str(<<CR, LF>>)
              ELSE Str(<<CR>>)
        /\ (\A i \in DOMAIN TextRead(outcome) : TextRead(outcome)[i] \notin {CR, LF}) =>
              outcome.ret = Str(<<LF>>)

\* a text whose first line ends in CR and which has as many CRLF lines as CR lines,
\* and no LF line, was detected as CRLF
C13_Witness ==
    /\ Returned("detect_linesep")
    /\ IsStr(outcome.code)
    /\ outcome.lines # <<>>
    /\ endswith(outcome.lines[1], <<CR>>)
    /\ outcome.pool.CR = outcome.pool.CRLF
    /\ outcome.pool.LF = 0
    /\ outcome.ret = Str(<<CR, LF>>)

\* cs is made of one or more lines without CR and LF, each followed by s
LinesTerminatedBy(cs, s) ==
    /\ endswith(cs, s)
    /\ IF s = <<CR, LF>>
       THEN /\ \A i \in DOMAIN cs : cs[i] = CR => (i < Len(cs) /\ cs[i + 1] = LF)
            /\ \A i \in DOMAIN cs : cs[i] = LF => (i > 1 /\ cs[i - 1] = CR)
       ELSE \A i \in DOMAIN cs : cs[i] \in {CR, LF} => <<cs[i]>> = s

\* C14: a text of N >= 1 lines, none containing CR or LF, each terminated by the same
\* separator s of LF, CRLF and CR, is detected as s.
C14_LinesepRoundTrip ==
    \A s \in {<<LF>>, <<CR, LF>>, <<CR>>} :
        (outcome.fn = "detect_linesep" /\ LinesTerminatedBy(TextRead(outcome), s)) =>
            outcome.ret = Str(s)

\* "x" CRLF CRLF, two lines terminated by CRLF, was detected as CRLF
C14_Witness ==
    /\ outcome.fn = "detect_linesep"
    /\ outcome.code = Str(<<"x", CR, LF, CR, LF>>)
    /\ outcome.ret = Str(<<CR, LF>>)


(***************************************************************************)
(* Properties of detect_indentation.                                       *)
(***************************************************************************)
IsMixed(string) == Contains(string, TAB) /\ Contains(string, SP)
IsSpaces(string) == ~Contains(string, TAB)
IsTabs(string) == Contains(string, TAB) /\ ~Contains(string, SP)

\* the INDENT tokens of a call that satisfy a test, as positions
TokensThat(tokens, Test(_)) == {i \in DOMAIN tokens : Test(tokens[i].string)}

\* the smallest length among the pure-space tokens
MinSpaces(tokens) ==
    CHOOSE n \in {Len(tokens[i].string) : i \in TokensThat(tokens, IsSpaces)} :
        \A i \in TokensThat(tokens, IsSpaces) : n <= Len(tokens[i].string)

\* C15: over the INDENT tokens of a call, detect_indentation returns min_spaces spaces
\* when the pure-space tokens outnumber the tab tokens, min_spaces being the smallest
\* length of a pure-space token; one tab when the tab tokens outnumber them; four
\* spaces when both counts are equal, zero or not.
C15_IndentationResolution ==
    Returned("detect_indentation") =>
        LET nspace == Cardinality(TokensThat(outcome.tokens, IsSpaces))
            ntab == Cardinality(TokensThat(outcome.tokens, IsTabs))
        IN  outcome.ret =
                IF nspace > ntab THEN Str([i \in 1..MinSpaces(outcome.tokens) |-> SP])
                ELSE IF ntab > nspace THEN Str(<<TAB>>)
                ELSE Str(<<SP, SP, SP, SP>>)

\* two pure-space tokens, the first of two spaces and the second of one, gave one space
C15_Witness ==
    /\ Returned("detect_indentation")
    /\ Len(outcome.tokens) = 2
    /\ outcome.tokens[1].string = <<SP, SP>>
    /\ outcome.tokens[2].string = <<SP>>
    /\ outcome.ret = Str(<<SP>>)

\* ts with the token t put after its first i tokens
InsertAt(ts, i, t) == SubSeq(ts, 1, i) \o <<t>> \o SubSeq(ts, i + 1, Len(ts))

PureTokens(ts) == SelectSeq(ts, LAMBDA t : ~IsMixed(t.string))

MixedTokens == {TokenInfo("INDENT", <<SP, TAB>>), TokenInfo("INDENT", <<TAB, SP>>)}

\* C16: INDENT tokens with both a tab and a space never influence the detection: the
\* counts, min_spaces and the result of a call are those of its tokens without the
\* mixed ones, and those of its tokens with one more mixed token at any place.
C16_MixedTokensIgnored ==
    (frame.fn = "detect_indentation" \/ outcome.fn = "detect_indentation") =>
        LET ts == IF frame.fn = "detect_indentation" THEN frame.tokens ELSE outcome.tokens
            votes == IF frame.fn = "detect_indentation" THEN frame.votes ELSE outcome.votes
        IN  /\ IndentVoteAll(IndentVotes, PureTokens(ts)) = votes
            /\ \A i \in 0..Len(ts), t \in MixedTokens :
                  /\ IndentVoteAll(IndentVotes, InsertAt(ts, i, t)) = votes
                  /\ IndentResult(IndentVoteAll(IndentVotes, InsertAt(ts, i, t))) = IndentResult(votes)
            /\ Returned("detect_indentation") =>
                  outcome.ret = IndentResult(IndentVoteAll(IndentVotes, PureTokens(ts)))

\* a call that met a mixed token and then a tab token returned a tab
C16_Witness ==
    /\ Returned("detect_indentation")
    /\ Len(outcome.tokens) = 2
    /\ IsMixed(outcome.tokens[1].string)
    /\ IsTabs(outcome.tokens[2].string)
    /\ outcome.ret = Str(<<TAB>>)


(***************************************************************************)
(* Properties of MakeTextIO.                                               *)
(***************************************************************************)
OnStream(o) == o.fn # "none" /\ o.code = TheStream

\* C17: when a call on a seekable stream has ended, by a return or by an exception
\* raised inside the with block, the stream is at the offset it had when the call
\* began and it is open.
C17_PositionRestored ==
    (OnStream(outcome) /\ stream.seekable) =>
        /\ stream.pos = outcome.pos0.n
        /\ ~stream.closed

\* detect_indentation on a stream that stood after its first character raised
\* TokenError and the stream stands there again
C17_Witness ==
    /\ OnStream(outcome)
    /\ stream.seekable
    /\ outcome.fn = "detect_indentation"
    /\ IsExc(outcome.ret)
    /\ outcome.ret.exc = "TokenError"
    /\ outcome.pos0 = PyInt(1)
    /\ stream.pos = 1

\* the outcome of the same call on the content of the stream as a string
OnString(fn) == RunToEnd(Begin(None, fn, Str(stream.content))).outcome

\* C18: a detection on a seekable stream reads the whole content from offset 0: at
\* whatever offset the stream stands and whatever calls were made before, it reads the
\* lines and returns (or raises) what the call on the content as a string does.
C18_WholeContentRead ==
    (OnStream(outcome) /\ stream.seekable /\ outcome.fn \in {"detect_linesep", "detect_indentation"}) =>
        /\ outcome.ret = OnString(outcome.fn).ret
        /\ outcome.lines = OnString(outcome.fn).lines
        /\ outcome.fn = "detect_linesep" => Concat(outcome.lines) = stream.content

\* detect_linesep on a stream that stood at its end returned CRLF
C18_Witness ==
    /\ OnStream(outcome)
    /\ stream.seekable
    /\ outcome.fn = "detect_linesep"
    /\ outcome.pos0 = PyInt(Len(stream.content))
    /\ outcome.ret = Str(<<CR, LF>>)

\* C19: no tell() and no seek() is ever called on a stream that is not seekable;
\* MakeTextIO gives back the stream itself, at the offset it has, and after the call
\* the stream stands after what the with block has read.
C19_UnseekableUntouched ==
    (stream # None /\ ~stream.seekable) =>
        /\ \A i \in DOMAIN stream.calls : stream.calls[i] \notin {"tell", "seek"}
        /\ frame.pc # "idle" =>
              /\ frame.file = "obj"
              /\ frame.self.sio = None
              /\ stream.pos = frame.pos0.n + Len(Concat(frame.lines))
        /\ OnStream(outcome) => stream.pos = outcome.pos0.n + Len(Concat(outcome.lines))

\* detect_linesep on a stream that is not seekable and stood after its first line read
\* the rest, and the stream stands at its end
C19_Witness ==
    /\ stream # None
    /\ ~stream.seekable
    /\ OnStream(outcome)
    /\ outcome.fn = "detect_linesep"
    /\ outcome.pos0.n > 0
    /\ outcome.lines # <<>>
    /\ stream.pos = Len(stream.content)
    /\ stream.pos > outcome.pos0.n

\* C20: for a string, MakeTextIO makes a new reader of the string, open at every point
\* inside the with block and closed when the block has been left, by its end or by an
\* exception; the lines read are the lines of the string with their terminators.
C20_StringReader ==
    /\ (frame.pc # "idle" /\ IsStr(frame.self.obj)) =>
          /\ frame.file = "sio"
          /\ frame.self.sio.content = frame.self.obj.chars
          /\ ~frame.self.sio.closed
          /\ Concat(frame.lines) = SubSeq(frame.self.obj.chars, 1, frame.self.sio.pos)
    /\ (outcome.fn # "none" /\ IsStr(outcome.code)) =>
          /\ outcome.self.sio.closed
          /\ outcome.fn = "detect_linesep" =>
                /\ Concat(outcome.lines) = outcome.code.chars
                /\ outcome.pool = [CR |-> CountCR(outcome.code.chars),
                                   CRLF |-> CountCRLF(outcome.code.chars),
                                   LF |-> CountLF(outcome.code.chars)]

\* a with block on a string was left by an exception and the reader is closed
C20_Witness ==
    /\ outcome.fn = "with"
    /\ IsStr(outcome.code)
    /\ IsExc(outcome.ret)
    /\ outcome.self.sio.closed


(***************************************************************************)
(* Properties of detect_encoding and of its callers on bytes.              *)
(***************************************************************************)
HasBOM(code) == startswith(code.bytes, BOM_UTF8)

\* the bytes after the byte order mark
AfterBOM(code) == IF HasBOM(code) THEN SubSeq(code.bytes, 4, Len(code.bytes)) ELSE code.bytes

\* line n (1 or 2) of the bytes bs, <<>> when there is none
LineOf(bs, n) ==
    LET ends == {i \in DOMAIN bs : bs[i] = LF} \cup {Len(bs)}
        EndOf(k) == CHOOSE e \in ends : Cardinality({i \in ends : i < e}) = k - 1
    IN  IF n = 1 THEN SubSeq(bs, 1, EndOf(1))
        ELSE IF Cardinality(ends) < 2 THEN <<>>
        ELSE SubSeq(bs, EndOf(1) + 1, EndOf(2))

\* a line with no statement: blank or a comment
NoStatement(line) ==
    \A i \in DOMAIN line : line[i] \in {SP, TAB, CR, LF} \/ \E j \in 1..i : line[j] = "#"

\* the name the coding comment of the code declares (None when it has none): the comment
\* is on line 1, or on line 2 under a line 1 that holds no statement
DeclaredName(code) ==
    IF cookie_re(LineOf(AfterBOM(code), 1)) # None THEN cookie_re(LineOf(AfterBOM(code), 1))
    ELSE IF NoStatement(LineOf(AfterBOM(code), 1)) THEN cookie_re(LineOf(AfterBOM(code), 2))
    ELSE None

IsUTF8(line) == \A i \in DOMAIN line : line[i] \notin HighBytes

\* the lines looked at for a coding comment are UTF-8
ReadableLines(code) ==
    /\ IsUTF8(LineOf(AfterBOM(code), 1))
    /\ NoStatement(LineOf(AfterBOM(code), 1)) /\ cookie_re(LineOf(AfterBOM(code), 1)) = None
          => IsUTF8(LineOf(AfterBOM(code), 2))

EncodingDetected == outcome.fn = "detect_encoding"

NonBytesRejected ==
    EncodingDetected /\ ~IsBytes(outcome.code)
        => /\ IsExc(outcome.ret)
           /\ outcome.ret.exc = "TypeError"
           /\ outcome.lines = <<>>

Disagree(code) ==
    /\ IsBytes(code)
    /\ HasBOM(code)
    /\ DeclaredName(code) # None
    /\ _get_normal_name(DeclaredName(code).chars) # UTF_8

\* the SyntaxError of detect_encoding itself, of no subclass
RaisedSyntaxError(ret) == IsExc(ret) /\ ret.exc = "SyntaxError"

\* C22: on bytes whose byte order mark and coding comment disagree, detect_encoding
\* raises SyntaxError, detect_linesep and detect_indentation raise that SyntaxError
\* before they read any text, and parso_parse raises BPCSyntaxError, a SyntaxError
\* subclass, made from it
C22_DisagreementSurfaces ==
    outcome # NoOutcome /\ Disagree(outcome.code) =>
        /\ outcome.fn = "detect_encoding" => RaisedSyntaxError(outcome.ret)
        /\ outcome.fn \in {"detect_linesep", "detect_indentation"}
              => /\ RaisedSyntaxError(outcome.ret)
                 /\ outcome.text = None
                 /\ outcome.lines = <<>>
        /\ outcome.fn = "parso_parse"
              => /\ IsExc(outcome.ret)
                 /\ outcome.ret.exc = "BPCSyntaxError"
                 /\ IsSyntaxError(outcome.ret)
                 /\ RaisedSyntaxError(outcome.ret.arg)

\* parso_parse called on a byte order mark followed by a coding comment of gbk
C22_Witness ==
    /\ outcome.fn = "parso_parse"
    /\ Disagree(outcome.code)
    /\ DeclaredName(outcome.code) = Str(GBK)
    /\ outcome.ret.exc = "BPCSyntaxError"


(***************************************************************************)
(* Properties of map_tasks and TaskLock.                                   *)
(***************************************************************************)
Workers == DOMAIN procs \ {0}

InBlock(p) == procs[p].pc = "inside"

\* the process stands before a with TaskLock() block
AtBlock(p) == procs[p].pc = "loop" /\ procs[p].call.i < Blocks(procs[p].call.func)

\* the lines of each task are next to each other in the output
NotInterleaved(out) ==
    \A a \in DOMAIN out : \A c \in DOMAIN out :
        a < c /\ out[a].task = out[c].task => \A b \in a..c : out[b].task = out[a].task

\* C23: in a parallel run of map_tasks every worker has the one Lock of the pool as its
\* task_lock, no two workers are inside a with TaskLock() block at the same time, and
\* the lines a task prints inside its block are not interleaved with those of another
C23_MutualExclusion ==
    /\ job.pc = "parallel"
          => /\ \A w \in Workers : TaskLock(task_lock, w) = TheLock
             /\ \A p \in Workers : \A q \in Workers : p # q => ~(InBlock(p) /\ InBlock(q))
    /\ NotInterleaved(output)

\* a worker has printed inside its block while another waits for the lock
C23_Witness ==
    /\ job.pc = "parallel"
    /\ output # <<>>
    /\ lock.locked
    /\ \E p \in Workers : \E q \in Workers : p # q /\ InBlock(p) /\ AtBlock(q)

\* lock_user_multiple_times(x) run on its own, from turn i of its loop
RECURSIVE LockUserResult(_, _)
LockUserResult(x, i) ==
    IF i = NumRounds THEN x
    ELSE LockUserResult(IF i % 2 = 1 THEN x + 1 ELSE x - 1, i + 1)

\* func(item, *posargs)
Apply(func, item, posargs) ==
    IF func = "divmod"
    THEN Tuple(<<PyInt(item \div posargs.items[1]), PyInt(item % posargs.items[1])>>)
    ELSE IF func = "task" THEN None
    ELSE PyInt(LockUserResult(item, 0))

\* [func(item, *posargs) for item in range(num)]
Expected(j) == Tuple([k \in 1..j.num |-> Apply(j.func, k - 1, j.posargs)])

LockFollowsBlocks == lock # None => (lock.locked <=> \E p \in Workers : InBlock(p))

\* C27: under fair scheduling a run of map_tasks whose tasks take and release TaskLock()
\* one block after the other always returns, with the result of every task; the lock
\* is released at the end of each with block; the sequential path gives the same
\* results
C27_RunTerminates ==
    /\ [](LockFollowsBlocks)
    /\ [](job.pc = "returned" => Len(job.result.items) = job.num /\ job.result = Expected(job))
    /\ (job.pc \in {"sequential", "parallel"}) ~> (job.pc = "returned")

\* a parallel run of lock_user_multiple_times over several items has returned
C27_Witness ==
    /\ job.pc = "returned"
    /\ job.func = "lock_user_multiple_times"
    /\ job.parallel_available
    /\ job.processes # PyInt(1)
    /\ job.num > 1
    /\ ~lock.locked


(***************************************************************************)
(* Properties of detect_files.                                             *)
(***************************************************************************)
Walking == files # None /\ detected = None

\* no directory was put on the queue twice during the walk, and none that the first
\* loop had put there
EnqueuedOnce ==
    /\ \A i \in DOMAIN enqueued : \A j \in DOMAIN enqueued : enqueued[i] = enqueued[j] => i = j
    /\ files # None =>
           \A i \in DOMAIN enqueued : \A k \in DOMAIN files.items : enqueued[i] # files.items[k]

\* a directory reaches itself by the items of the listings
Reaches(fs, a, b) ==
    LET Step(S) == S \cup {i.realpath : i \in UNION {fs.listdir[d] : d \in S \cap Directories}}
        RECURSIVE Closure(_)
        Closure(S) == IF Step(S) = S THEN S ELSE Closure(Step(S))
    IN  b \in Closure({i.realpath : i \in fs.listdir[a]})

\* C28: detect_files terminates on every finite graph of directories, cycles of
\* symbolic links included: a directory found during the walk is put on the queue only
\* if its resolved path was never put there before, so the queue runs empty and the
\* call returns
C28_DetectFilesTerminates ==
    /\ [](EnqueuedOnce)
    /\ Walking ~> (detected # None /\ directory_queue = <<>>)

\* the call has returned from a walk through a cycle of directories, in which a
\* directory was found again and left alone
C28_Witness ==
    /\ detected # None
    /\ enqueued # <<>>
    /\ \E d \in directory_visited : Reaches(tree, d, d)


(***************************************************************************)
(* Properties of the order of the tests of detect_linesep.                 *)
(***************************************************************************)
\* a step of detect_linesep that classifies a line, and the line
Classifies ==
    /\ frame.fn = "detect_linesep"
    /\ frame'.fn = "detect_linesep"
    /\ Len(frame'.lines) = Len(frame.lines) + 1

\* where test a is made, test b was made before it
MadeAfter(tests, a, b) ==
    \A j \in DOMAIN tests : tests[j] = a => \E i \in 1..(j - 1) : tests[i] = b

Suffix(class) == IF class = "CR" THEN <<CR>> ELSE IF class = "CRLF" THEN <<CR, LF>> ELSE <<LF>>

\* the pool after the vote of the class whose test, the last one made, has passed
Counted(pool, tests, line) ==
    LET class == tests[Len(tests)]
    IN  IF ~endswith(line, Suffix(class)) THEN pool
        ELSE IF class = "CR" THEN [pool EXCEPT !.CR = @ + 1]
        ELSE IF class = "CRLF" THEN [pool EXCEPT !.CRLF = @ + 1]
        ELSE [pool EXCEPT !.LF = @ + 1]

\* C25 as stated: when detect_linesep classifies the terminator of a line, it makes the
\* test for CRLF before the test for CR and before the test for LF
C25_AsStated ==
    [][Classifies =>
          LET tests == LinesepTests(frame'.lines[Len(frame'.lines)])
          IN  MadeAfter(tests, "CR", "CRLF") /\ MadeAfter(tests, "LF", "CRLF")]_ioVars

\* C25: when detect_linesep classifies the terminator of a line, it makes the test for
\* CRLF before the test for LF; the test for CR is the first one made, a line that ends
\* in CRLF fails it and is counted as CRLF, and the class counted is the one whose test
\* passed
C25_TestOrder ==
    [][Classifies =>
          LET line == frame'.lines[Len(frame'.lines)]
              tests == LinesepTests(line)
          IN  /\ MadeAfter(tests, "LF", "CRLF")
              /\ tests[1] = "CR"
              /\ frame'.pool = Counted(frame.pool, tests, line)
              /\ endswith(line, <<CR, LF>>) => frame'.pool = [frame.pool EXCEPT !.CRLF = @ + 1]]_ioVars

\* a line ending in CRLF has been classified: the test for CR was made and failed, the
\* test for CRLF passed
C25_Witness ==
    /\ frame.fn = "detect_linesep"
    /\ frame.lines # <<>>
    /\ endswith(frame.lines[Len(frame.lines)], <<CR, LF>>)
    /\ LinesepTests(frame.lines[Len(frame.lines)]) = <<"CR", "CRLF">>
    /\ frame.pool.CRLF > 0
    /\ frame.pool.CR = 0


(***************************************************************************)
(* Properties of the message of S.result.                                  *)
(***************************************************************************)
\* C26: the ValueError that S.result raises on a StringInterpolation with remaining
\* placeholders has the message 'string interpolation not complete, the following
\* placeholders have not been substituted: ' followed by the repr of the names of the
\* remaining placeholders, sorted, each once, joined by ', '
C26_ResultMessage ==
    (/\ last.op = "result"
     /\ IsStringInterpolation(last.pre, last.a)
     /\ PlaceholdersOf(last.pre, last.a) # <<>>) =>
        /\ IsExc(last.ret)
        /\ last.ret.exc = "ValueError"
        /\ last.ret.head = "string interpolation not complete, the following placeholders have not been substituted: "
        /\ last.ret.arg = Str(ListedNames(NameSet(last.pre, last.a)))
        /\ last.ret.tail = ""


(***************************************************************************)
(* Properties of + as an operation: associativity and identity.            *)
(***************************************************************************)
\* the third operands: the texts and the objects the program held before the call
ThirdOperands == {Str(<<>>), Str(INJ)} \cup Refs(last.pre)

ThenAdd(r, c) == operator_add(r.heap, r.ret, c)
AddAfter(a, r) == operator_add(r.heap, a, r.ret)

\* l == r, both returned, compared on the heap that holds both
SameValue(l, r) ==
    /\ ~IsExc(l.ret)
    /\ ~IsExc(r.ret)
    /\ operator_eq(IF Len(l.heap) >= Len(r.heap) THEN l.heap ELSE r.heap, l.ret, r.ret)

\* (a + b) + c == a + (b + c), l being (a + b) + c
AssocFromLeft(l, a, b, c) == SameValue(l, AddAfter(a, operator_add(l.heap, b, c)))

\* (a + b) + c == a + (b + c), r being a + (b + c)
AssocFromRight(r, a, b, c) == SameValue(ThenAdd(operator_add(r.heap, a, b), c), r)

IsEmptyInterpolation(h, v) ==
    /\ IsStringInterpolation(h, v)
    /\ h[v.id].literals = <<Str(<<>>)>>
    /\ h[v.id].placeholders = <<>>

\* e + x == x + e == StringInterpolation(x), s being e + x or x + e
IdentityFrom(s, e, x) ==
    /\ SameValue(s, operator_add(s.heap, e, x))
    /\ SameValue(s, operator_add(s.heap, x, e))
    /\ SameValue(operator_add(s.heap, e, x), operator_add(s.heap, x, e))
    /\ SameValue(s, StringInterpolation__init__(s.heap, <<x>>))

AddReturned ==
    /\ last.op = "add"
    /\ IsOperand(last.pre, last.a)
    /\ IsOperand(last.pre, last.b)

\* C29: + is associative and the empty StringInterpolation is its identity: for a, b, c
\* among str, Placeholder and StringInterpolation, (a + b) + c == a + (b + c), and
\* StringInterpolation() + x == x + StringInterpolation() == StringInterpolation(x)
C29_Associativity ==
    AddReturned =>
        /\ ~IsExc(last.ret)
        /\ \A c \in ThirdOperands :
              /\ AssocFromLeft(ThenAdd([heap |-> last.post, ret |-> last.ret], c), last.a, last.b, c)
              /\ AssocFromRight(AddAfter(c, [heap |-> last.post, ret |-> last.ret]), c, last.a, last.b)
        /\ IsEmptyInterpolation(last.pre, last.a) =>
              IdentityFrom([heap |-> last.post, ret |-> last.ret], last.a, last.b)
        /\ IsEmptyInterpolation(last.pre, last.b) =>
              IdentityFrom([heap |-> last.post, ret |-> last.ret], last.b, last.a)

\* a text was added to a StringInterpolation with a placeholder while the program holds
\* a Placeholder to add as the third operand
C29_Witness ==
    /\ AddReturned
    /\ IsStringInterpolation(last.pre, last.a)
    /\ PlaceholdersOf(last.pre, last.a) # <<>>
    /\ last.b = Str(INJ)
    /\ ReturnedInterpolation
    /\ \E c \in ThirdOperands :
          /\ IsPlaceholder(last.pre, c)
          /\ AssocFromLeft(ThenAdd([heap |-> last.post, ret |-> last.ret], c), last.a, last.b, c)

\* the empty StringInterpolation was added to a Placeholder
C29_IdentityWitness ==
    /\ AddReturned
    /\ IsEmptyInterpolation(last.pre, last.b)
    /\ IsPlaceholder(last.pre, last.a)
    /\ ReturnedInterpolation
    /\ Literals(last.post, last.ret) = <<Str(<<>>), Str(<<>>)>>


(***************************************************************************)
(* Properties of == between the types.                                     *)
(***************************************************************************)
\* a StringInterpolation is compared with a Placeholder or with a str, in either order
CrossTypeEq ==
    /\ last.op = "eq"
    /\ \/ IsStringInterpolation(last.pre, last.a) /\ (IsPlaceholder(last.pre, last.b) \/ IsStr(last.b))
       \/ IsStringInterpolation(last.pre, last.b) /\ (IsPlaceholder(last.pre, last.a) \/ IsStr(last.a))

\* s is StringInterpolation(p)
IsBare(h, s, p) ==
    /\ IsStringInterpolation(h, s)
    /\ IsPlaceholder(h, p)
    /\ h[s.id].literals = <<Str(<<>>), Str(<<>>)>>
    /\ Len(h[s.id].placeholders) = 1
    /\ h[h[s.id].placeholders[1].id].name = h[p.id].name

\* C30: == between the types is symmetric: for a StringInterpolation s and a
\* Placeholder p, s == p and p == s give the same answer, and so do s == t and t == s
\* for a str t; Placeholder('y') == StringInterpolation(Placeholder('y')) is True
C30_SymmetricEquality ==
    CrossTypeEq =>
        /\ last.ret = Bool(operator_eq(last.pre, last.b, last.a))
        /\ IsBare(last.pre, last.b, last.a) => last.ret = Bool(TRUE)

====
